---- MODULE Spec2Model ----
(***************************************************************************)
(* Kanban board REST layer: the `columns`, `cards`, `card_dependencies`,   *)
(* `sprints`, `epics` and `card_comments` tables and the request handlers  *)
(* that read and write them.  A handler that runs with no concurrent       *)
(* request is one atomic action built from the SQL statements it executes, *)
(* in the order the handler awaits them; the racing card moves and the     *)
(* racing creates are split at their awaits.  The board page and the       *)
(* sprints page are modelled by the requests their callbacks send and the  *)
(* lists they keep, the council mock route by the loads of its module and  *)
(* the polls they answer, the council page by its polls, its timers and    *)
(* its toggle.  The labels of a card are the JSON text the handlers store  *)
(* and parse, the comments of a card the rows of their table.              *)
(***************************************************************************)
EXTENDS Integers, Sequences, FiniteSets, TLC

\* Bounds of the model: the largest row id each table hands out, and the
\* largest card id a dependency request names.
MaxColId == 2
MaxCardId == 3
MaxDepId == 2
MaxSprintId == 4
\* The last second of the clock the mock council route is polled on.
MaxClock == 3
\* The polls the council page starts from its interval, and its clicks on
\* the Live/Demo toggle.
MaxPolls == 2
MaxToggles == 1
\* The largest number of rows of the card_comments table.
MaxComments == 3
\* The largest number of rows of the epics table, and of the comments and
\* the sprints that the validation requests post.
MaxRows == 1

VARIABLES
  columns,     \* columns table: id -> [position]
  cards,       \* cards table: id -> [column_id, position]
  deps,        \* card_dependencies table: <<card_id, depends_on_id>> -> rows
  nextColId,   \* next id the columns table assigns
  nextCardId,  \* next id the cards table assigns
  last,        \* the request answered last and its response status
  sprints,     \* sprints table: id -> [status]
  nextSprintId,\* next id the sprints table assigns
  epics,       \* number of rows of the epics table
  comments,    \* card_comments table: rows [card_id, body, created_at] by id
  inflight,    \* move requests whose handler is between two awaits
  pageSprints, \* the sprint page's `sprints` state
  view,        \* the board page's `columns` state: column id -> card ids
  mock,        \* the mock council route: clock, module load time, responses
  labels,      \* cards.labels: card id -> stored text, for the cards whose
               \* request carried a labels field; the other cards hold '[]'
  council      \* the council page: its state, its timers, its polls in flight

vars == <<columns, cards, deps, nextColId, nextCardId, last,
          sprints, nextSprintId, epics, comments,
          inflight, pageSprints, view, mock, labels, council>>

\* What lives outside the store: handlers in flight, the pages' state, the
\* mock route's module.
outside == <<inflight, pageSprints, view, mock, labels, council>>

\* Every table and every id counter.
store == <<columns, cards, deps, sprints, epics, comments, nextColId, nextCardId, nextSprintId>>

\* What the column, card and dependency handlers never touch.
elsewhere == <<sprints, nextSprintId, epics, comments, inflight, pageSprints, view, mock, labels, council>>

----------------------------------------------------------------------------
\* Values that travel in requests.

Min(a, b) == IF a < b THEN a ELSE b
Max(a, b) == IF a > b THEN a ELSE b

\* A JSON `position`: a number, or anything that is not a number (absent,
\* null, a string), for which typeof position === 'number' is false.
NumPos(n) == [isNumber |-> TRUE, value |-> n]
NoPos == [isNumber |-> FALSE, value |-> 0]
PosInputs == {NumPos(n) : n \in -1..(MaxCardId - 1)} \cup {NoPos}

\* A JSON `depends_on_id`: the number n, or the string of n's digits.
JsonNumber(n) == [type |-> "number", v |-> n]
JsonString(n) == [type |-> "string", v |-> n]
NoVal == [type |-> "none", v |-> 0]
DepValInputs == {JsonNumber(n) : n \in 1..MaxDepId} \cup {JsonString(n) : n \in 1..MaxDepId}

\* The {id} path segment: the digits of n, possibly followed by other
\* characters ("2" or "2x").
Segment(n, j) == [digits |-> n, junk |-> j]
SegInputs == {Segment(n, j) : n \in 1..MaxDepId, j \in BOOLEAN}

\* parseInt(id): the leading digits, whatever follows them.
ParseInt(seg) == seg.digits

\* JavaScript ===: a number equals only the same number, never a string.
StrictEq(n, val) == val.type = "number" /\ val.v = n

\* The integer a bound argument is stored and compared as in an id column.
SqlInteger(val) == val.v

\* The request answered last: the operation, the response status, the row id
\* it named or created, the column_id, position and depends_on_id it carried
\* (0, NoPos, NoVal when it carried none) and the number of
\* card_dependencies rows its statement inserted or deleted; the fields its
\* body left out, whether the body was not JSON at all, whether a store or
\* filesystem call threw inside the handler, and the kind of body of the
\* response: "ok" for the 2xx payload, "error" for { error: <fixed text> };
\* and, for a handler that threw, the number of UPDATE statements it had
\* completed.
Request(op, status, id, col, pos, val, rows) ==
  [op |-> op, status |-> status, id |-> id, col |-> col, pos |-> pos,
   val |-> val, rows |-> rows, omitted |-> {}, malformed |-> FALSE,
   threw |-> FALSE, body |-> IF status < 400 THEN "ok" ELSE "error",
   done |-> 0]

\* The same, for a request whose body left out the fields `omitted`.
RequestWithout(omitted, op, status, id, col) ==
  [Request(op, status, id, col, NoPos, NoVal, 0) EXCEPT !.omitted = omitted]

\* The fields of `fields` that the body does not carry: fields maps a field
\* name to whether the body has a truthy value for it.
Omitted(fields) == {f \in DOMAIN fields : ~fields[f]}

\* A JSON `status` of a sprint body: a string, or "absent" when the body has
\* no status, which the destructuring default turns into 'active'.
StatusInputs == {"active", "closed", "absent"}
DefaultStatus(status) == IF status = "absent" THEN "active" ELSE status

\* A JSON `body` of a comment: absent, or a string of spaces and letters.
TextBody(chars) == [present |-> TRUE, chars |-> chars]
NoBody == [present |-> FALSE, chars |-> <<>>]
BodyInputs ==
  {NoBody, TextBody(<<>>), TextBody(<<" ">>), TextBody(<<"a">>),
   TextBody(<<" ", "a">>), TextBody(<<"a", " ">>)}

\* A trim that strips nothing.
Trim_None(chars) == chars

\* String.prototype.trim(): the string without its leading and trailing
\* white space.
RECURSIVE Trim(_)
Trim(chars) ==
  IF chars = <<>> THEN <<>>
  ELSE IF Head(chars) = " " THEN Trim(Tail(chars))
  ELSE IF chars[Len(chars)] = " " THEN Trim(SubSeq(chars, 1, Len(chars) - 1))
  ELSE chars

\* !body?.trim(): no body, or a body that trims to the empty string.
BlankBody(body) == ~body.present \/ Trim(body.chars) = <<>>

----------------------------------------------------------------------------
\* SQL statements over the columns table.

\* A create that ignores the positions already taken.
MaxColumnPosition_NoMax(tbl) == -1

\* SELECT COALESCE(MAX(position), -1) FROM columns
MaxColumnPosition(tbl) ==
  IF DOMAIN tbl = {} THEN -1
  ELSE CHOOSE m \in {tbl[c].position : c \in DOMAIN tbl} :
         \A c \in DOMAIN tbl : tbl[c].position <= m

\* INSERT INTO columns (title, color, position) VALUES (?, ?, ?)
InsertColumn(tbl, id, pos) ==
  [c \in DOMAIN tbl \cup {id} |-> IF c = id THEN [position |-> pos] ELSE tbl[c]]

\* DELETE FROM columns WHERE id = ?
DeleteColumnRow(tbl, id) == [c \in DOMAIN tbl \ {id} |-> tbl[c]]

----------------------------------------------------------------------------
\* SQL statements over the cards table.

CardsIn(tbl, col) == {c \in DOMAIN tbl : tbl[c].column_id = col}

\* A create that counts the rows of the column instead of taking MAX(position).
MaxCardPosition_Count(tbl, col) == Cardinality(CardsIn(tbl, col)) - 1

\* SELECT COALESCE(MAX(position), -1) FROM cards WHERE column_id = ?
MaxCardPosition(tbl, col) ==
  IF CardsIn(tbl, col) = {} THEN -1
  ELSE CHOOSE m \in {tbl[c].position : c \in CardsIn(tbl, col)} :
         \A c \in CardsIn(tbl, col) : tbl[c].position <= m

\* INSERT INTO cards (column_id, ..., position, ...) VALUES (...)
InsertCard(tbl, id, col, pos) ==
  [c \in DOMAIN tbl \cup {id} |->
     IF c = id THEN [column_id |-> col, position |-> pos] ELSE tbl[c]]

\* DELETE FROM cards WHERE id = ?
DeleteCardRow(tbl, id) == [c \in DOMAIN tbl \ {id} |-> tbl[c]]

\* A column delete without the cascade.
DeleteCardsOfColumn_None(tbl, col) == tbl

\* DELETE FROM cards WHERE column_id = ?
DeleteCardsOfColumn(tbl, col) == [c \in DOMAIN tbl \ CardsIn(tbl, col) |-> tbl[c]]

\* The SELECT of the move without its column_id condition.
ColumnCardsExcept_AnyColumn(tbl, col, id) == DOMAIN tbl \ {id}

\* The SELECT of the move without its id != ? condition.
ColumnCardsExcept_WithCard(tbl, col, id) == CardsIn(tbl, col)

\* The rows of: WHERE column_id = ? AND id != ?
ColumnCardsExcept(tbl, col, id) == CardsIn(tbl, col) \ {id}

\* ... ORDER BY position ASC: every order of the rows that is ascending in
\* position; rows with equal positions come in an order SQL leaves open.
RECURSIVE OrderByPosition(_, _)
OrderByPosition(tbl, S) ==
  IF S = {} THEN {<<>>}
  ELSE LET first == {c \in S : \A d \in S : tbl[c].position <= tbl[d].position}
       IN  UNION {{<<c>> \o rest : rest \in OrderByPosition(tbl, S \ {c})} : c \in first}

\* The UPDATE of the move without its position assignment.
UpdateCardPlace_ColumnOnly(tbl, id, col, pos) ==
  IF id \in DOMAIN tbl THEN [tbl EXCEPT ![id].column_id = col] ELSE tbl

\* UPDATE cards SET column_id = ?, position = ? WHERE id = ?
UpdateCardPlace(tbl, id, col, pos) ==
  IF id \in DOMAIN tbl
    THEN [tbl EXCEPT ![id] = [column_id |-> col, position |-> pos]]
    ELSE tbl

\* UPDATE cards SET ..., column_id = ? WHERE id = ?  (position is not set)
UpdateCardColumn(tbl, id, col) ==
  IF id \in DOMAIN tbl THEN [tbl EXCEPT ![id].column_id = col] ELSE tbl

----------------------------------------------------------------------------
\* The move handler's list computation.

\* typeof position === 'number' ? Math.min(position, n) : n
InsertPos(pos, n) == IF pos.isNumber THEN Min(pos.value, n) ELSE n

\* A move that pushes the card at the end instead of splicing it in.
Splice_Push(ids, start, item) == Append(ids, item)

\* Array.prototype.splice(start, 0, item): a negative start counts from the
\* end, and the start is clamped into 0..length.
Splice(ids, start, item) ==
  LET len == Len(ids)
      at == IF start < 0 THEN Max(len + start, 0) ELSE Min(start, len)
  IN  SubSeq(ids, 1, at) \o <<item>> \o SubSeq(ids, at + 1, len)

\* for (i = 0; i < cardIds.length; i++) UPDATE ... position = i WHERE id = cardIds[i]
RECURSIVE UpdateAllPositions(_, _, _, _)
UpdateAllPositions(tbl, ids, col, i) ==
  IF i >= Len(ids) THEN tbl
  ELSE UpdateAllPositions(UpdateCardPlace(tbl, ids[i + 1], col, i), ids, col, i + 1)

----------------------------------------------------------------------------
\* SQL statements over the card_dependencies table.

\* The pair (card_id, depends_on_id) is unique in the table.
DepConflict(tbl, row) == tbl[row] > 0

\* An insert that adds a row whether or not the pair is already there.
InsertOrIgnoreDep_Always(tbl, row) == [tbl EXCEPT ![row] = @ + 1]

\* INSERT OR IGNORE INTO card_dependencies (card_id, depends_on_id, created_at)
InsertOrIgnoreDep(tbl, row) ==
  IF DepConflict(tbl, row) THEN tbl ELSE [tbl EXCEPT ![row] = @ + 1]

\* DELETE FROM card_dependencies WHERE card_id = ? AND depends_on_id = ?
DeleteDepRow(tbl, row) == [tbl EXCEPT ![row] = 0]

DepRows == (1..MaxDepId) \X (1..MaxDepId)

----------------------------------------------------------------------------
\* The council page's models.

\* type ModelId
ModelIds == {"claude", "system"}

\* INITIAL_MODEL_STATE; `speaking` is the event whose speech the model
\* shows, 0 when it shows none.
INITIAL_MODEL_STATE == [status |-> "IDLE", speaking |-> 0, confidence |-> "null"]

----------------------------------------------------------------------------
\* The clients that send move requests at the same time, and a handler that
\* is not running.
Clients == {1, 2}
Idle ==
  [pc |-> "idle", card_id |-> 0, column_id |-> 0, position |-> NoPos,
   cardIds |-> <<>>, i |-> 0, raced |-> FALSE]

\* The council page as it mounts in Live mode: no event processed, every
\* model idle, no timer pending, and the first poll of the polling effect in
\* flight.  `polled` and `toggled` count the polls started and the clicks on
\* the Live/Demo toggle, `applied` lists the events applied to the page since
\* the last toggle and `step` tells what the last step was.
CouncilStart ==
  [useMock |-> FALSE, processedIds |-> {}, events |-> <<>>,
   models |-> [m \in ModelIds |-> INITIAL_MODEL_STATE],
   currentPhase |-> "none", sessionStart |-> 0, verdict |-> "none",
   timers |-> {},
   polls |-> {[n |-> 0, useMock |-> FALSE, cancelled |-> FALSE]},
   polled |-> 0, toggled |-> 0,
   applied |-> <<>>, step |-> [kind |-> "mount"]]

\* The mock route at time 0: no server process has loaded its module, no
\* poll has been answered.
MockStart == [clock |-> 0, loads |-> {}, polls |-> <<>>]

Init ==
  /\ columns = <<>>
  /\ cards = <<>>
  /\ deps = [row \in DepRows |-> 0]
  /\ nextColId = 1
  /\ nextCardId = 1
  /\ last = Request("none", 0, 0, 0, NoPos, NoVal, 0)
  /\ sprints = <<>>
  /\ nextSprintId = 1
  /\ epics = 0
  /\ comments = <<>>
  /\ inflight = [cl \in Clients |-> Idle]
  /\ pageSprints = <<>>
  /\ view = <<>>
  /\ mock = MockStart
  /\ labels = <<>>
  /\ council = CouncilStart

\* POST /api/columns
ColumnsPOST(hasTitle) ==
  /\ IF ~hasTitle
       THEN /\ last' = RequestWithout({"title"}, "createColumn", 400, 0, 0)
            /\ UNCHANGED <<columns, nextColId>>
       ELSE /\ nextColId <= MaxColId
            /\ columns' = InsertColumn(columns, nextColId, MaxColumnPosition(columns) + 1)
            /\ nextColId' = nextColId + 1
            /\ last' = Request("createColumn", 201, nextColId, 0, NoPos, NoVal, 0)
  /\ UNCHANGED <<cards, deps, nextCardId>>
  /\ UNCHANGED elsewhere

\* PUT /api/columns/{id}
ColumnsIdPUT(id, hasTitle) ==
  /\ last' = RequestWithout(Omitted([title |-> hasTitle]), "updateColumn",
                            IF ~hasTitle THEN 400 ELSE IF id \in DOMAIN columns THEN 200 ELSE 404,
                            id, 0)
  /\ UNCHANGED <<columns, cards, deps, nextColId, nextCardId>>
  /\ UNCHANGED elsewhere

\* DELETE /api/columns/{id}
ColumnsIdDELETE(id) ==
  /\ cards' = DeleteCardsOfColumn(cards, id)
  /\ columns' = DeleteColumnRow(columns, id)
  /\ last' = Request("deleteColumn", 200, id, 0, NoPos, NoVal, 0)
  /\ UNCHANGED <<deps, nextColId, nextCardId>>
  /\ UNCHANGED elsewhere

\* POST /api/cards; col 0 stands for a body without a truthy column_id.
CardsPOST(col, hasTitle) ==
  /\ IF col = 0 \/ ~hasTitle
       THEN /\ last' = RequestWithout(Omitted([column_id |-> col # 0, title |-> hasTitle]),
                                      "createCard", 400, 0, 0)
            /\ UNCHANGED <<cards, nextCardId>>
       ELSE /\ nextCardId <= MaxCardId
            /\ cards' = InsertCard(cards, nextCardId, col, MaxCardPosition(cards, col) + 1)
            /\ nextCardId' = nextCardId + 1
            /\ last' = Request("createCard", 201, nextCardId, col, NoPos, NoVal, 0)
  /\ UNCHANGED <<columns, deps, nextColId>>
  /\ UNCHANGED elsewhere

\* PUT /api/cards/{id}, the merging handler: a field the body does not carry
\* keeps its stored value, the title included.
CardsIdPUT(id, hasTitle, hasCol, col) ==
  /\ IF id \notin DOMAIN cards
       THEN /\ last' = RequestWithout(Omitted([title |-> hasTitle]), "updateCard", 404, id, 0)
            /\ UNCHANGED cards
       ELSE /\ cards' = UpdateCardColumn(cards, id, IF hasCol THEN col ELSE cards[id].column_id)
            /\ last' = RequestWithout(Omitted([title |-> hasTitle]), "updateCard", 200, id,
                                      IF hasCol THEN col ELSE 0)
  /\ UNCHANGED <<columns, deps, nextColId, nextCardId>>
  /\ UNCHANGED elsewhere

\* PUT /api/cards/{id}, the handler that overwrites every field but column_id
\* and position; a body without labels stores '[]'.
CardsIdPUTFull(id, hasTitle) ==
  /\ last' = RequestWithout(Omitted([title |-> hasTitle]), "updateCardFull",
                            IF ~hasTitle THEN 400 ELSE IF id \in DOMAIN cards THEN 200 ELSE 404,
                            id, 0)
  /\ labels' = IF hasTitle /\ id \in DOMAIN labels
                 THEN [c \in DOMAIN labels \ {id} |-> labels[c]]
                 ELSE labels
  /\ UNCHANGED <<columns, cards, deps, nextColId, nextCardId>>
  /\ UNCHANGED <<sprints, nextSprintId, epics, comments, inflight, pageSprints, view, mock, council>>

\* DELETE /api/cards/{id}
CardsIdDELETE(id) ==
  /\ cards' = DeleteCardRow(cards, id)
  /\ last' = Request("deleteCard", 200, id, 0, NoPos, NoVal, 0)
  /\ UNCHANGED <<columns, deps, nextColId, nextCardId>>
  /\ UNCHANGED elsewhere

\* POST /api/cards/move; card_id 0 stands for a falsy card_id and hasCol
\* FALSE for a body without column_id.
CardsMovePOST(card_id, hasCol, column_id, position) ==
  /\ IF card_id = 0 \/ ~hasCol
       THEN /\ last' = RequestWithout(Omitted([card_id |-> card_id # 0, column_id |-> hasCol]),
                                      "move", 400, 0, 0)
            /\ UNCHANGED cards
       ELSE \E rows \in OrderByPosition(cards, ColumnCardsExcept(cards, column_id, card_id)) :
              LET cardIds == Splice(rows, InsertPos(position, Len(rows)), card_id)
              IN  /\ cards' = UpdateAllPositions(cards, cardIds, column_id, 0)
                  /\ last' = Request("move", 200, card_id, column_id, position, NoVal, 0)
  /\ UNCHANGED <<columns, deps, nextColId, nextCardId>>
  /\ UNCHANGED elsewhere

\* POST /api/cards/{id}/dependencies
DependenciesPOST(seg, depends_on_id) ==
  LET cardId == ParseInt(seg)
  IN  /\ IF StrictEq(cardId, depends_on_id)
           THEN /\ last' = Request("addDependency", 400, cardId, 0, NoPos, depends_on_id, 0)
                /\ UNCHANGED deps
           ELSE /\ deps' = InsertOrIgnoreDep(deps, <<cardId, SqlInteger(depends_on_id)>>)
                /\ last' = Request("addDependency", 200, cardId, 0, NoPos, depends_on_id,
                                   IF DepConflict(deps, <<cardId, SqlInteger(depends_on_id)>>)
                                     THEN 0 ELSE 1)
      /\ UNCHANGED <<columns, cards, nextColId, nextCardId>>
      /\ UNCHANGED elsewhere

\* DELETE /api/cards/{id}/dependencies
DependenciesDELETE(seg, depends_on_id) ==
  /\ deps' = DeleteDepRow(deps, <<ParseInt(seg), SqlInteger(depends_on_id)>>)
  /\ last' = Request("removeDependency", 200, ParseInt(seg), 0, NoPos, depends_on_id,
                     deps[<<ParseInt(seg), SqlInteger(depends_on_id)>>])
  /\ UNCHANGED <<columns, cards, nextColId, nextCardId>>
  /\ UNCHANGED elsewhere

\* UPDATE sprints SET ..., status=? WHERE id=? RETURNING *
UpdateSprintRow(tbl, id, status) ==
  IF id \in DOMAIN tbl THEN [tbl EXCEPT ![id] = [status |-> status]] ELSE tbl

\* INSERT INTO sprints (name, start_date, end_date, status, created_at)
InsertSprint(tbl, id, status) ==
  [k \in DOMAIN tbl \cup {id} |-> IF k = id THEN [status |-> status] ELSE tbl[k]]

\* POST /api/sprints
SprintsPOST(hasName, status) ==
  /\ IF ~hasName
       THEN /\ last' = RequestWithout({"name"}, "createSprint", 400, 0, 0)
            /\ UNCHANGED <<sprints, nextSprintId>>
       ELSE /\ nextSprintId <= MaxSprintId
            /\ sprints' = InsertSprint(sprints, nextSprintId, DefaultStatus(status))
            /\ nextSprintId' = nextSprintId + 1
            /\ last' = Request("createSprint", 201, nextSprintId, 0, NoPos, NoVal, 0)
  /\ UNCHANGED <<columns, cards, deps, nextColId, nextCardId, epics, comments>>
  /\ UNCHANGED outside

\* PUT /api/sprints/{id}
SprintsIdPUT(id, hasName, status) ==
  /\ IF ~hasName
       THEN /\ last' = RequestWithout({"name"}, "updateSprint", 400, id, 0)
            /\ UNCHANGED sprints
       ELSE /\ sprints' = UpdateSprintRow(sprints, id, DefaultStatus(status))
            /\ last' = Request("updateSprint", IF id \in DOMAIN sprints THEN 200 ELSE 404,
                               id, 0, NoPos, NoVal, 0)
  /\ UNCHANGED <<columns, cards, deps, nextColId, nextCardId, nextSprintId, epics, comments>>
  /\ UNCHANGED outside

\* POST /api/epics
EpicsPOST(hasTitle) ==
  /\ IF ~hasTitle
       THEN /\ last' = RequestWithout({"title"}, "createEpic", 400, 0, 0)
            /\ UNCHANGED epics
       ELSE /\ epics < MaxRows
            /\ epics' = epics + 1
            /\ last' = Request("createEpic", 201, epics + 1, 0, NoPos, NoVal, 0)
  /\ UNCHANGED <<columns, cards, deps, nextColId, nextCardId, sprints, nextSprintId, comments>>
  /\ UNCHANGED outside

\* The latest created_at of the table, 0 when it is empty.
RECURSIVE LatestCreatedAt(_)
LatestCreatedAt(tbl) ==
  IF tbl = <<>> THEN 0
  ELSE Max(tbl[Len(tbl)].created_at, LatestCreatedAt(SubSeq(tbl, 1, Len(tbl) - 1)))

\* An insert that takes the place of the newest row.
InsertComment_Replace(tbl, card_id, chars, now) ==
  IF tbl = <<>>
    THEN <<[card_id |-> card_id, body |-> Trim(chars), created_at |-> now]>>
    ELSE [tbl EXCEPT ![Len(tbl)] = [card_id |-> card_id, body |-> Trim(chars), created_at |-> now]]

\* INSERT INTO card_comments (card_id, author, body, created_at)
\* VALUES (parseInt(id), ..., body.trim(), now)
InsertComment(tbl, card_id, chars, now) ==
  Append(tbl, [card_id |-> card_id, body |-> Trim(chars), created_at |-> now])

\* The ids of the rows WHERE card_id = ?
CommentsOf(tbl, card_id) == {i \in DOMAIN tbl : tbl[i].card_id = card_id}

\* ORDER BY created_at ASC over the rows S: every order SQL may return, rows
\* with equal created_at coming in any order.
RECURSIVE OrderByCreatedAt(_, _)
OrderByCreatedAt(tbl, S) ==
  IF S = {} THEN {<<>>}
  ELSE LET first == {i \in S : \A j \in S : tbl[i].created_at <= tbl[j].created_at}
       IN  UNION {{<<i>> \o rest : rest \in OrderByCreatedAt(tbl, S \ {i})} : i \in first}

\* GET /api/cards/{id}/comments: the ids of the rows it may return, in order.
CommentsGET(tbl, seg) == OrderByCreatedAt(tbl, CommentsOf(tbl, ParseInt(seg)))

\* POST /api/cards/{id}/comments at time now; the request is recorded as
\* leaving out its body when it has none or one made of white space only.
CommentsPOST(seg, body, now) ==
  /\ IF BlankBody(body)
       THEN /\ last' = RequestWithout(
                         IF body.present /\ \E i \in DOMAIN body.chars : body.chars[i] # " "
                           THEN {} ELSE {"body"},
                         "createComment", 400, ParseInt(seg), 0)
            /\ UNCHANGED comments
       ELSE /\ Len(comments) < MaxComments
            /\ comments' = InsertComment(comments, ParseInt(seg), body.chars, now)
            /\ last' = RequestWithout(
                         IF body.present /\ \E i \in DOMAIN body.chars : body.chars[i] # " "
                           THEN {} ELSE {"body"},
                         "createComment", 201, ParseInt(seg), 0)
  /\ UNCHANGED <<columns, cards, deps, nextColId, nextCardId, sprints, nextSprintId, epics>>
  /\ UNCHANGED outside

----------------------------------------------------------------------------
\* The sprint page.

\* GET /api/sprints: SELECT * FROM sprints ORDER BY created_at DESC, the rows
\* as the page keeps them, newest first.
RECURSIVE SprintsGET(_)
SprintsGET(tbl) ==
  IF DOMAIN tbl = {} THEN <<>>
  ELSE LET newest == CHOOSE m \in DOMAIN tbl : \A k \in DOMAIN tbl : k <= m
       IN  <<[id |-> newest, status |-> tbl[newest].status]>>
             \o SprintsGET([k \in DOMAIN tbl \ {newest} |-> tbl[k]])

\* for (const s of sprints) if (s.id !== except && s.status === 'active')
\*   await PUT /api/sprints/{s.id} with { ...s, status: 'closed' }
\* The test reads the page's copy of the row; except is 0 when the loop has no
\* s.id test.
RECURSIVE CloseActive(_, _, _)
CloseActive(tbl, list, except) ==
  IF list = <<>> THEN tbl
  ELSE CloseActive(IF Head(list).id # except /\ Head(list).status = "active"
                     THEN UpdateSprintRow(tbl, Head(list).id, DefaultStatus("closed"))
                     ELSE tbl,
                   Tail(list), except)

\* createSprint(): if (!newSprint.name.trim()) return; otherwise
\* POST /api/sprints with { name, start_date, end_date }, then load().
createSprint(name) ==
  /\ IF Trim(name) = <<>>
       THEN /\ last' = [Request("createSprint", 0, 0, 0, NoPos, NoVal, 0) EXCEPT !.body = "none"]
            /\ UNCHANGED <<sprints, nextSprintId, pageSprints>>
       ELSE /\ nextSprintId <= MaxSprintId
            /\ sprints' = InsertSprint(sprints, nextSprintId, DefaultStatus("absent"))
            /\ nextSprintId' = nextSprintId + 1
            /\ pageSprints' = SprintsGET(sprints')
            /\ last' = Request("createSprint", 201, nextSprintId, 0, NoPos, NoVal, 0)
  /\ UNCHANGED <<columns, cards, deps, nextColId, nextCardId, epics, comments>>
  /\ UNCHANGED <<inflight, view, mock, labels, council>>

\* setSprintActive(sprint) of the page with the epic form: one PUT with the
\* body { status: 'active' }, which has no name and is answered 400; load().
setSprintActiveStatusOnly(sprint) ==
  /\ UNCHANGED <<sprints, nextSprintId>>
  /\ pageSprints' = SprintsGET(sprints')
  /\ last' = RequestWithout({"name"}, "setSprintActive", 400, sprint.id, 518)
  /\ UNCHANGED <<columns, cards, deps, nextColId, nextCardId, epics, comments>>
  /\ UNCHANGED <<inflight, view, mock, labels, council>>

\* setSprintActive(sprint) that closes first: a PUT { ...s, status: 'closed' }
\* for every s of the page's list with status 'active', then
\* PUT { ...sprint, status: 'active' }; load().
setSprintActiveCloseFirst(sprint) ==
  /\ sprints' = UpdateSprintRow(CloseActive(sprints, pageSprints, 0), sprint.id,
                                DefaultStatus("active"))
  /\ pageSprints' = SprintsGET(sprints')
  /\ last' = Request("setSprintActive", IF sprint.id \in DOMAIN sprints THEN 200 ELSE 404,
                     sprint.id, 1011, NoPos, NoVal, 0)
  /\ UNCHANGED <<columns, cards, deps, nextColId, nextCardId, nextSprintId, epics, comments>>
  /\ UNCHANGED <<inflight, view, mock, labels, council>>

\* setSprintActive(sprint) that activates first: PUT { ...sprint, status:
\* 'active' }, then a PUT { ...s, status: 'closed' } for every other s of the
\* page's list with status 'active'; load().
setSprintActiveCloseAfter(sprint) ==
  /\ sprints' = CloseActive(UpdateSprintRow(sprints, sprint.id, DefaultStatus("active")),
                            pageSprints, sprint.id)
  /\ pageSprints' = SprintsGET(sprints')
  /\ last' = Request("setSprintActive", IF sprint.id \in DOMAIN sprints THEN 200 ELSE 404,
                     sprint.id, 1322, NoPos, NoVal, 0)
  /\ UNCHANGED <<columns, cards, deps, nextColId, nextCardId, nextSprintId, epics, comments>>
  /\ UNCHANGED <<inflight, view, mock, labels, council>>

----------------------------------------------------------------------------
\* Handlers whose try block throws.

\* The handlers that read a JSON body.
JsonHandlers ==
  {"createColumn", "updateColumn", "createCard", "updateCard", "updateCardFull", "move"}

\* await req.json() on a body that is not JSON throws inside the handler's
\* try; the catch logs and answers 500 with the handler's fixed message.
ReqJsonThrows(op) ==
  /\ last' = [Request(op, 500, 0, 0, NoPos, NoVal, 0) EXCEPT !.malformed = TRUE]
  /\ UNCHANGED store
  /\ UNCHANGED outside

\* A response to a request in whose handler a store or filesystem call threw.
Thrown(op, status, id, body) ==
  [Request(op, status, id, 0, NoPos, NoVal, 0) EXCEPT !.threw = TRUE, !.body = body]

\* The handlers of the board's REST layer, each of which starts with a store
\* call inside try { } catch { 500, fixed message }.
DbHandlers ==
  {"listColumns", "createColumn", "updateColumn", "listCards", "createCard",
   "updateCard", "updateCardFull", "deleteCard", "move", "board",
   "listSprints", "createSprint", "updateSprint", "listEpics", "createEpic",
   "listComments", "createComment", "listDependencies", "addDependency",
   "removeDependency"}

\* db.execute throws in the first statement of a handler.
DbExecuteThrows(op) ==
  /\ last' = Thrown(op, 500, 0, "error")
  /\ UNCHANGED store
  /\ UNCHANGED outside

\* The column delete as far as it gets when it stops after its first
\* statement, if the column row went first.
StoppedColumnDelete_ColumnFirst(cols, cds, id) ==
  [columns |-> DeleteColumnRow(cols, id), cards |-> cds]

\* The column delete as far as it gets when it stops after its first
\* statement: DELETE FROM cards WHERE column_id = ? has run, DELETE FROM
\* columns WHERE id = ? has not.
StoppedColumnDelete(cols, cds, id) ==
  [columns |-> cols, cards |-> DeleteCardsOfColumn(cds, id)]

\* DELETE /api/columns/{id} that stops between its two statements: the
\* process dies (no response, status 0) or the second statement throws and
\* the catch answers 500.
ColumnsIdDELETEStopped(id, crash) ==
  /\ columns' = StoppedColumnDelete(columns, cards, id).columns
  /\ cards' = StoppedColumnDelete(columns, cards, id).cards
  /\ last' = IF crash THEN [Request("deleteColumn", 0, id, 0, NoPos, NoVal, 0)
                             EXCEPT !.body = "none"]
                      ELSE Thrown("deleteColumn", 500, id, "error")
  /\ UNCHANGED <<deps, nextColId, nextCardId>>
  /\ UNCHANGED elsewhere

\* A move that undoes the statements it completed when one throws.
CardsMovePOSTThrows_RolledBack(card_id, column_id, position, k) ==
  /\ \E rows \in OrderByPosition(cards, ColumnCardsExcept(cards, column_id, card_id)) :
       LET cardIds == Splice(rows, InsertPos(position, Len(rows)), card_id)
       IN  /\ k < Len(cardIds)
           /\ cards' = cards
           /\ last' = [Thrown("move", 500, card_id, "error")
                         EXCEPT !.col = column_id, !.pos = position, !.done = k]
  /\ UNCHANGED <<columns, deps, nextColId, nextCardId>>
  /\ UNCHANGED elsewhere

\* POST /api/cards/move in which the UPDATE number k + 1 throws: the first k
\* rows of the list are rewritten, the catch answers 500.
CardsMovePOSTThrows(card_id, column_id, position, k) ==
  /\ \E rows \in OrderByPosition(cards, ColumnCardsExcept(cards, column_id, card_id)) :
       LET cardIds == Splice(rows, InsertPos(position, Len(rows)), card_id)
       IN  /\ k < Len(cardIds)
           /\ cards' = UpdateAllPositions(cards, SubSeq(cardIds, 1, k), column_id, 0)
           /\ last' = [Thrown("move", 500, card_id, "error")
                         EXCEPT !.col = column_id, !.pos = position, !.done = k]
  /\ UNCHANGED <<columns, deps, nextColId, nextCardId>>
  /\ UNCHANGED elsewhere

\* GET /api/council/events: readFileSync throws when the log cannot be read,
\* and the catch answers [] with the default status 200.
CouncilEventsGET(readable) ==
  /\ last' = IF readable THEN Request("councilEvents", 200, 0, 0, NoPos, NoVal, 0)
                         ELSE Thrown("councilEvents", 200, 0, "fallback")
  /\ UNCHANGED store
  /\ UNCHANGED outside

\* GET /api/council/stats: a filesystem call or JSON.parse of the cost log
\* throws, and the catch answers the zero statistics with status 200.
CouncilStatsGET(readable) ==
  /\ last' = IF readable THEN Request("councilStats", 200, 0, 0, NoPos, NoVal, 0)
                         ELSE Thrown("councilStats", 200, 0, "fallback")
  /\ UNCHANGED store
  /\ UNCHANGED outside

\* The store probe (SELECT 1 as ok): when the store call throws, the catch
\* answers 500 with the exception's message and stack in the body.
ProbeGET(storeUp) ==
  /\ last' = IF storeUp THEN Request("probe", 200, 0, 0, NoPos, NoVal, 0)
                        ELSE Thrown("probe", 500, 0, "exception")
  /\ UNCHANGED store
  /\ UNCHANGED outside

----------------------------------------------------------------------------
\* POST /api/cards/move, one awaited statement at a time.

\* The handler up to the end of its SELECT: the body passed the validation
\* and cardIds holds the target column's other cards with card_id spliced in.
\* `raced` records that another move request was between its SELECT and its
\* last UPDATE at that moment.
MoveSelect(cl, card_id, column_id, position) ==
  /\ inflight[cl].pc = "idle"
  /\ \E rows \in OrderByPosition(cards, ColumnCardsExcept(cards, column_id, card_id)) :
       inflight' = [inflight EXCEPT ![cl] =
                      [pc |-> "updating", card_id |-> card_id, column_id |-> column_id,
                       position |-> position,
                       cardIds |-> Splice(rows, InsertPos(position, Len(rows)), card_id),
                       i |-> 0,
                       raced |-> \E o \in Clients \ {cl} : inflight[o].pc = "updating"]]
  /\ UNCHANGED <<store, last, pageSprints, view, mock, labels, council>>

\* One turn of the loop: UPDATE cards SET column_id = ?, position = i WHERE
\* id = cardIds[i]; after the last turn the handler answers { ok: true }.
MoveUpdate(cl) ==
  /\ inflight[cl].pc = "updating"
  /\ cards' = UpdateCardPlace(cards, inflight[cl].cardIds[inflight[cl].i + 1],
                              inflight[cl].column_id, inflight[cl].i)
  /\ IF inflight[cl].i + 1 = Len(inflight[cl].cardIds)
       THEN /\ inflight' = [inflight EXCEPT ![cl].pc = "done"]
            /\ last' = Request("move", 200, inflight[cl].card_id, inflight[cl].column_id,
                               inflight[cl].position, NoVal, 0)
       ELSE /\ inflight' = [inflight EXCEPT ![cl].i = @ + 1]
            /\ UNCHANGED last
  /\ UNCHANGED <<columns, deps, nextColId, nextCardId, sprints, nextSprintId, epics, comments>>
  /\ UNCHANGED <<pageSprints, view, mock, labels, council>>

----------------------------------------------------------------------------
\* POST /api/cards and POST /api/columns, one awaited statement at a time.

\* POST /api/cards up to the end of its SELECT COALESCE(MAX(position), -1):
\* the body passed the validation and maxPos is held in the handler.
CardsPOSTSelect(cl, col) ==
  /\ inflight[cl].pc = "idle"
  /\ inflight' = [inflight EXCEPT ![cl] =
                    [Idle EXCEPT !.pc = "insertCard", !.column_id = col,
                                 !.position = NumPos(MaxCardPosition(cards, col)),
                                 !.raced = \E o \in Clients \ {cl} : inflight[o].pc # "idle"]]
  /\ last' = [Request("createCard", 0, 0, col, NoPos, NoVal, 0) EXCEPT !.body = "none"]
  /\ UNCHANGED store
  /\ UNCHANGED <<pageSprints, view, mock, labels, council>>

\* Its INSERT with position maxPos + 1, and the 201 response.
CardsPOSTInsert(cl) ==
  /\ inflight[cl].pc = "insertCard"
  /\ nextCardId <= MaxCardId
  /\ cards' = InsertCard(cards, nextCardId, inflight[cl].column_id,
                         inflight[cl].position.value + 1)
  /\ nextCardId' = nextCardId + 1
  /\ inflight' = [inflight EXCEPT ![cl] = Idle]
  /\ last' = Request("createCard", 201, nextCardId, inflight[cl].column_id, NoPos, NoVal, 0)
  /\ UNCHANGED <<columns, deps, nextColId, sprints, nextSprintId, epics, comments>>
  /\ UNCHANGED <<pageSprints, view, mock, labels, council>>

\* POST /api/columns up to the end of its SELECT COALESCE(MAX(position), -1).
ColumnsPOSTSelect(cl) ==
  /\ inflight[cl].pc = "idle"
  /\ inflight' = [inflight EXCEPT ![cl] =
                    [Idle EXCEPT !.pc = "insertColumn",
                                 !.position = NumPos(MaxColumnPosition(columns)),
                                 !.raced = \E o \in Clients \ {cl} : inflight[o].pc # "idle"]]
  /\ last' = [Request("createColumn", 0, 0, 0, NoPos, NoVal, 0) EXCEPT !.body = "none"]
  /\ UNCHANGED store
  /\ UNCHANGED <<pageSprints, view, mock, labels, council>>

\* Its INSERT with position maxPos + 1, and the 201 response.
ColumnsPOSTInsert(cl) ==
  /\ inflight[cl].pc = "insertColumn"
  /\ nextColId <= MaxColId
  /\ columns' = InsertColumn(columns, nextColId, inflight[cl].position.value + 1)
  /\ nextColId' = nextColId + 1
  /\ inflight' = [inflight EXCEPT ![cl] = Idle]
  /\ last' = Request("createColumn", 201, nextColId, 0, NoPos, NoVal, 0)
  /\ UNCHANGED <<cards, deps, nextCardId, sprints, nextSprintId, epics, comments>>
  /\ UNCHANGED <<pageSprints, view, mock, labels, council>>

----------------------------------------------------------------------------
\* The board page.

\* GET /api/board: every column of S with its cards in ORDER BY position;
\* cards with equal positions come in an order SQL leaves open.
RECURSIVE BoardRows(_, _)
BoardRows(cds, S) ==
  IF S = {} THEN {<<>>}
  ELSE LET col == CHOOSE x \in S : TRUE
       IN  {(col :> ids) @@ rest :
              ids \in OrderByPosition(cds, CardsIn(cds, col)),
              rest \in BoardRows(cds, S \ {col})}

BoardGET(cols, cds) == BoardRows(cds, DOMAIN cols)

\* columns.find(col => col.cards.some(c => c.id === cardId)): the column of
\* the page's state that shows the card, 0 when none does.
FindColumnByCardId(v, cardId) ==
  IF \E col \in DOMAIN v : \E i \in DOMAIN v[col] : v[col][i] = cardId
    THEN CHOOSE col \in DOMAIN v : \E i \in DOMAIN v[col] : v[col][i] = cardId
    ELSE 0

\* cards.findIndex(c => c.id === cardId), an index from 0; -1 when absent.
FindIndex(ids, cardId) ==
  IF \E i \in DOMAIN ids : ids[i] = cardId
    THEN (CHOOSE i \in DOMAIN ids : ids[i] = cardId /\ \A j \in 1..(i - 1) : ids[j] # cardId) - 1
    ELSE -1

\* cards.filter(c => c.id !== cardId)
FilterOut(ids, cardId) == SelectSeq(ids, LAMBDA c : c # cardId)

\* arrayMove(cards, from, to): the element at from taken out and put back at
\* to, both indices from 0.
ArrayMove(ids, from, to) == Splice(FilterOut(ids, ids[from + 1]), to, ids[from + 1])

\* What the pointer is over: a card or a column.
OverCard(id) == [kind |-> "card", id |-> id]
OverColumn(id) == [kind |-> "col", id |-> id]

\* The column the pointer is over, 0 when the card it is over is not shown.
OverColumnId(v, over) ==
  IF over.kind = "card" THEN FindColumnByCardId(v, over.id) ELSE over.id

\* saveCard() of a new card: POST /api/cards, then await loadBoard().
saveCard(col) ==
  /\ nextCardId <= MaxCardId
  /\ cards' = InsertCard(cards, nextCardId, col, MaxCardPosition(cards, col) + 1)
  /\ nextCardId' = nextCardId + 1
  /\ view' \in BoardGET(columns, cards')
  /\ last' = Request("createCard", 201, nextCardId, col, NoPos, NoVal, 0)
  /\ UNCHANGED <<columns, deps, nextColId, sprints, nextSprintId, epics, comments>>
  /\ UNCHANGED <<inflight, pageSprints, mock, labels, council>>

\* onDragOver: a card dragged over another column is taken out of its column
\* and appended to that column, in the page's state only.
onDragOver(activeCardId, over) ==
  /\ FindColumnByCardId(view, activeCardId) # 0
  /\ OverColumnId(view, over) \notin {0, FindColumnByCardId(view, activeCardId)}
  /\ view' = [col \in DOMAIN view |->
                IF col = FindColumnByCardId(view, activeCardId)
                  THEN FilterOut(view[col], activeCardId)
                ELSE IF col = OverColumnId(view, over)
                  THEN Append(view[col], activeCardId)
                ELSE view[col]]
  /\ last' = [Request("onDragOver", 0, activeCardId, OverColumnId(view, over), NoPos, NoVal, 0)
                EXCEPT !.body = "none"]
  /\ UNCHANGED store
  /\ UNCHANGED <<inflight, pageSprints, mock, labels, council>>

\* The column_id the drag-end sends: the column of the card the pointer is
\* over, or the column it is over, or the column that shows the dragged card.
TargetColId(v, activeCardId, over) ==
  IF over.kind = "card" /\ over.id # activeCardId /\ FindColumnByCardId(v, over.id) # 0
    THEN FindColumnByCardId(v, over.id)
  ELSE IF over.kind = "col" THEN over.id
  ELSE FindColumnByCardId(v, activeCardId)

\* The position the drag-end sends.
TargetPosition(v, activeCardId, over) ==
  IF over.kind = "card" /\ over.id # activeCardId /\ FindColumnByCardId(v, over.id) # 0
    THEN FindIndex(v[FindColumnByCardId(v, over.id)], over.id)
  ELSE IF over.kind = "col" THEN (IF over.id \in DOMAIN v THEN Len(v[over.id]) ELSE 0)
  ELSE FindIndex(v[FindColumnByCardId(v, activeCardId)], activeCardId)

\* The page's state after the drag-end's own setColumns: a drop on a card of
\* the same column reorders that column.
DropView(v, activeCardId, over) ==
  IF /\ over.kind = "card" /\ over.id # activeCardId
     /\ FindColumnByCardId(v, over.id) # 0
     /\ FindColumnByCardId(v, over.id) = FindColumnByCardId(v, activeCardId)
    THEN [v EXCEPT ![FindColumnByCardId(v, activeCardId)] =
            ArrayMove(@, FindIndex(@, activeCardId), FindIndex(@, over.id))]
    ELSE v

\* onDragEnd: the page's state is updated, one POST /api/cards/move is sent
\* inside try { await fetch } catch { loadBoard() }.  The request is answered
\* 200 ("ok"); or fetch rejects before the request reaches the server and the
\* catch reloads the board ("rejected"); or the handler's statement k + 1
\* throws and the server answers 500 ("error"): fetch resolves with that
\* response, the catch does not run and nothing is reloaded.
onDragEnd(activeCardId, over, outcome, k) ==
  /\ FindColumnByCardId(view, activeCardId) # 0
  /\ LET column_id == TargetColId(view, activeCardId, over)
         position == NumPos(TargetPosition(view, activeCardId, over))
     IN  \E rows \in OrderByPosition(cards, ColumnCardsExcept(cards, column_id, activeCardId)) :
           LET cardIds == Splice(rows, InsertPos(position, Len(rows)), activeCardId)
           IN  CASE outcome = "ok" ->
                      /\ k = Len(cardIds)
                      /\ cards' = UpdateAllPositions(cards, cardIds, column_id, 0)
                      /\ view' = DropView(view, activeCardId, over)
                      /\ last' = Request("onDragEnd", 200, activeCardId, column_id, position, NoVal, 0)
                 [] outcome = "rejected" ->
                      /\ k = 0
                      /\ cards' = cards
                      /\ view' \in BoardGET(columns, cards)
                      /\ last' = [Request("onDragEnd", 0, activeCardId, column_id, position, NoVal, 0)
                                    EXCEPT !.body = "none"]
                 [] outcome = "error" ->
                      /\ k < Len(cardIds)
                      /\ cards' = UpdateAllPositions(cards, SubSeq(cardIds, 1, k), column_id, 0)
                      /\ view' = DropView(view, activeCardId, over)
                      /\ last' = [Thrown("onDragEnd", 500, activeCardId, "error")
                                    EXCEPT !.col = column_id, !.pos = position]
  /\ UNCHANGED <<columns, deps, nextColId, nextCardId, sprints, nextSprintId, epics, comments>>
  /\ UNCHANGED <<inflight, pageSprints, mock, labels, council>>

----------------------------------------------------------------------------
\* The labels of a card.

\* JSON values a `labels` field may hold: a list of strings, a string, null.
JsonArray(items) == [kind |-> "array", items |-> items]
JsonText(s) == [kind |-> "string", s |-> s]
JsonNull == [kind |-> "null"]
LabelValues == {JsonArray(<<>>), JsonArray(<<"a">>), JsonArray(<<"a", "b">>), JsonText("x"), JsonNull}

\* A text as its tokens: a string literal, or one of the symbols [ ] , null
\* and, for anything that is not JSON, the bare word abc.
Literal(s) == [literal |-> s]
Sym(s) == [sym |-> s]
IsLiteral(token) == "literal" \in DOMAIN token

\* The tokens of the strings of a list, separated by commas.
RECURSIVE Joined(_)
Joined(items) ==
  IF items = <<>> THEN <<>>
  ELSE IF Len(items) = 1 THEN <<Literal(items[1])>>
  ELSE <<Literal(items[1]), Sym(",")>> \o Joined(Tail(items))

\* JSON.stringify(value)
JsonStringify(value) ==
  CASE value.kind = "array" -> <<Sym("[")>> \o Joined(value.items) \o <<Sym("]")>>
    [] value.kind = "string" -> <<Literal(value.s)>>
    [] value.kind = "null" -> <<Sym("null")>>

\* The strings of the tokens between the brackets of a list; <<"throws">>
\* stands for a SyntaxError.
RECURSIVE Elements(_)
Elements(tokens) ==
  IF tokens = <<>> THEN <<"throws">>
  ELSE IF ~IsLiteral(Head(tokens)) THEN <<"throws">>
  ELSE IF Len(tokens) = 1 THEN <<Head(tokens).literal>>
  ELSE IF tokens[2] # Sym(",") THEN <<"throws">>
  ELSE LET rest == Elements(SubSeq(tokens, 3, Len(tokens)))
       IN  IF rest = <<"throws">> THEN rest ELSE <<Head(tokens).literal>> \o rest

\* JSON.parse(text): the value, or [kind |-> "throws"] for a SyntaxError.
JsonParse(text) ==
  IF text = <<Sym("null")>> THEN JsonNull
  ELSE IF Len(text) = 1 /\ IsLiteral(text[1]) THEN JsonText(text[1].literal)
  ELSE IF Len(text) >= 2 /\ text[1] = Sym("[") /\ text[Len(text)] = Sym("]")
    THEN IF Len(text) = 2 THEN JsonArray(<<>>)
         ELSE LET items == Elements(SubSeq(text, 2, Len(text) - 1))
              IN  IF items = <<"throws">> THEN [kind |-> "throws"] ELSE JsonArray(items)
  ELSE [kind |-> "throws"]

\* try { return JSON.parse(c.labels as string || '[]'); } catch { return []; }
\* An empty text stands for '' and for NULL.
Deserialize(text) ==
  LET value == JsonParse(IF text = <<>> THEN <<Sym("["), Sym("]")>> ELSE text)
  IN  IF value.kind = "throws" THEN JsonArray(<<>>) ELSE value

\* The labels column of a card.
StoredLabels(lbls, id) == IF id \in DOMAIN lbls THEN lbls[id] ELSE JsonStringify(JsonArray(<<>>))

\* POST /api/cards with a labels field: the card is stored with
\* JSON.stringify(labels).
CardsPOSTLabels(col, value) ==
  /\ nextCardId <= MaxCardId
  /\ cards' = InsertCard(cards, nextCardId, col, MaxCardPosition(cards, col) + 1)
  /\ nextCardId' = nextCardId + 1
  /\ labels' = (nextCardId :> JsonStringify(value)) @@ labels
  /\ last' = Request("createCard", 201, nextCardId, col, NoPos, NoVal, 0)
  /\ UNCHANGED <<columns, deps, nextColId, sprints, nextSprintId, epics, comments>>
  /\ UNCHANGED <<inflight, pageSprints, view, mock, council>>

\* PUT /api/cards/{id}, the merging handler, with a labels field and nothing
\* else: 'labels' in body ? JSON.stringify(body.labels) : current.labels
CardsIdPUTLabels(id, value) ==
  /\ IF id \notin DOMAIN cards
       THEN /\ last' = Request("updateCard", 404, id, 0, NoPos, NoVal, 0)
            /\ UNCHANGED labels
       ELSE /\ labels' = (id :> JsonStringify(value)) @@ labels
            /\ last' = Request("updateCard", 200, id, 0, NoPos, NoVal, 0)
  /\ UNCHANGED store
  /\ UNCHANGED <<inflight, pageSprints, view, mock, council>>

\* GET /api/board: every response the handler may give: the columns in ORDER
\* BY position, each with its id and the cards that pass
\* c.column_id === col.id, in ORDER BY position, labels deserialized.
BoardResponse(cols, cds, lbls) ==
  UNION {
    {[k \in DOMAIN order |->
        [id |-> order[k],
         cards |-> [i \in DOMAIN v[order[k]] |->
                      [id |-> v[order[k]][i],
                       column_id |-> cds[v[order[k]][i]].column_id,
                       position |-> cds[v[order[k]][i]].position,
                       labels |-> Deserialize(StoredLabels(lbls, v[order[k]][i]))]]]] :
       v \in BoardGET(cols, cds)} :
    order \in OrderByPosition(cols, DOMAIN cols)}

----------------------------------------------------------------------------
\* GET /api/council/mock.

\* The offsets MOCK_EVENTS passes to ts(), in the order of the array.
MockOffsets == <<0, 4, 5, 6, 14, 20, 26, 34, 38, 46, 54, 62, 66, 73, 79, 86, 94, 108>>

\* ts(offsetSec): new Date(Date.now() - (120 - offsetSec) * 1000), in
\* seconds; now is the time at which the call is evaluated.
ts(now, offsetSec) == now - (120 - offsetSec)

\* MOCK_EVENTS: a module constant, so every ts() in it is evaluated once,
\* when a server process loads the module; n stands for the fixed phase,
\* model, type and content of the n-th event.
MockEvents(loadedAt) ==
  [n \in DOMAIN MockOffsets |-> [timestamp |-> ts(loadedAt, MockOffsets[n]), event |-> n]]

\* A GET that builds the array anew for every request.
MockGET_Fresh(loadedAt, now) == MockEvents(now)

\* GET: return NextResponse.json(MOCK_EVENTS), in a process that loaded the
\* module at loadedAt, for a request made at now.
MockGET(loadedAt, now) == MockEvents(loadedAt)

\* A second passes.
Tick ==
  /\ mock.clock < MaxClock
  /\ mock' = [mock EXCEPT !.clock = @ + 1]
  /\ UNCHANGED <<store, last, inflight, pageSprints, view, labels, council>>

\* A server process loads the route's module: at its first request after a
\* start, a restart, a redeploy, or in a further instance.
LoadModule ==
  /\ mock.clock \notin mock.loads
  /\ mock' = [mock EXCEPT !.loads = @ \cup {mock.clock}]
  /\ UNCHANGED <<store, last, inflight, pageSprints, view, labels, council>>

\* The page polls the route and a process that has the module loaded
\* answers; the page keeps the last two responses.
PollMock(loadedAt) ==
  /\ loadedAt \in mock.loads
  /\ mock' = [mock EXCEPT !.polls =
                 (IF Len(@) = 2 THEN Tail(@) ELSE @)
                   \o <<[at |-> mock.clock, loadedAt |-> loadedAt,
                         events |-> MockGET(loadedAt, mock.clock)]>>]
  /\ last' = Request("councilMock", 200, 0, 0, NoPos, NoVal, 0)
  /\ UNCHANGED <<store, inflight, pageSprints, view, labels, council>>

----------------------------------------------------------------------------
\* The council page.

\* A CouncilEvent: `n` stands for its content, `confidence` is "number" or
\* "none", `initiates` tells that the content starts with "Session
\* initiated" and `recommendation` that the event carries one.
CouncilEvent(n, timestamp, phase, model, type, confidence) ==
  [n |-> n, timestamp |-> timestamp, phase |-> phase, model |-> model,
   type |-> type, confidence |-> confidence,
   initiates |-> type = "phase_change" /\ phase = "research",
   recommendation |-> type = "complete"]

\* The lines of the log the live endpoint tails, oldest first.  Events 3 and
\* 4 differ in their content and have the same timestamp, model and type.
Feed ==
  <<CouncilEvent(1, 1, "research", "system", "phase_change", "none"),
    CouncilEvent(2, 2, "research", "claude", "thinking", "none"),
    CouncilEvent(3, 3, "research", "claude", "speaking", "number"),
    CouncilEvent(4, 3, "research", "claude", "speaking", "none"),
    CouncilEvent(5, 4, "diverge", "claude", "speaking", "none"),
    CouncilEvent(6, 5, "diverge", "claude", "thinking", "none"),
    CouncilEvent(7, 6, "synthesize", "system", "speaking", "number"),
    CouncilEvent(8, 7, "synthesize", "system", "complete", "none")>>

\* What one poll returns: lines.slice(-50) of a log that holds the first j
\* lines, which is the whole log while it has no more than 50 lines; the
\* mock endpoint returns its whole array.
Responses == {SubSeq(Feed, 1, j) : j \in 0..Len(Feed)}

\* `${ev.timestamp}-${ev.model}-${ev.type}`
EventId(ev) == <<ev.timestamp, ev.model, ev.type>>

\* A filter that lets every event through and remembers none.
Fresh_All(newEvents, seen) == [fresh |-> newEvents, seen |-> seen]

\* newEvents.filter(...): the events whose id processedIds does not hold, each
\* id being added as the filter meets it.
RECURSIVE Fresh(_, _)
Fresh(newEvents, seen) ==
  IF newEvents = <<>> THEN [fresh |-> <<>>, seen |-> seen]
  ELSE LET ev == Head(newEvents)
       IN  IF EventId(ev) \in seen
             THEN Fresh(Tail(newEvents), seen)
             ELSE LET rest == Fresh(Tail(newEvents), seen \cup {EventId(ev)})
                  IN  [fresh |-> <<ev>> \o rest.fresh, seen |-> rest.seen]

\* [...prev, ...fresh].slice(-50)
Slice50(list) ==
  IF Len(list) > 50 THEN SubSeq(list, Len(list) - 49, Len(list)) ELSE list

\* The body of fresh.forEach for one event, on the page's state c.
ApplyEvent(c, ev) ==
  LET phased ==
        IF ev.type = "phase_change"
          THEN IF ev.initiates
                 THEN [c EXCEPT !.currentPhase = ev.phase,
                                !.sessionStart = ev.timestamp,
                                !.verdict = "none"]
                 ELSE [c EXCEPT !.currentPhase = ev.phase]
          ELSE c
      judged ==
        IF ev.type = "complete" /\ ev.recommendation
          THEN [phased EXCEPT !.verdict = ev.n]
          ELSE phased
      logged == [judged EXCEPT !.applied = Append(@, ev)]
  IN  IF ev.model = "system" THEN logged
      ELSE IF ev.type = "thinking"
        THEN [logged EXCEPT !.models[ev.model].status = "THINKING",
                            !.models[ev.model].speaking = ev.n]
      ELSE IF ev.type = "speaking"
        THEN [logged EXCEPT
                !.models[ev.model] =
                   [status |-> "SPEAKING", speaking |-> ev.n,
                    confidence |-> IF ev.confidence = "number" THEN "number" ELSE "null"],
                !.timers = @ \cup {[model |-> ev.model, event |-> ev.n,
                                    voted |-> ev.confidence = "number",
                                    stale |-> FALSE]}]
      ELSE logged

\* fresh.forEach(...)
RECURSIVE ForEach(_, _)
ForEach(c, fresh) ==
  IF fresh = <<>> THEN c ELSE ForEach(ApplyEvent(c, Head(fresh)), Tail(fresh))

\* processEvents(newEvents)
processEvents(c, newEvents) ==
  LET f == Fresh(newEvents, c.processedIds)
      seen == [c EXCEPT !.processedIds = f.seen]
  IN  IF f.fresh = <<>> THEN seen
      ELSE ForEach([seen EXCEPT !.events = Slice50(@ \o f.fresh)], f.fresh)

\* setInterval(poll, ...): a poll starts and its fetch is in flight.
PollStart ==
  /\ council.polled < MaxPolls
  /\ council' = [council EXCEPT
                   !.polls = @ \cup {[n |-> council.polled + 1,
                                      useMock |-> council.useMock,
                                      cancelled |-> FALSE]},
                   !.polled = @ + 1,
                   !.step = [kind |-> "pollStart"]]
  /\ UNCHANGED <<store, last, inflight, pageSprints, view, mock, labels>>

\* The fetch of a poll resolves with data: if (!cancelled) processEvents(data).
\* `step` keeps the data, whether the poll was cancelled and how many of its
\* events passed the filter.
PollResponse(p, data) ==
  /\ p \in council.polls
  /\ LET done == [council EXCEPT !.polls = @ \ {p},
                                 !.step = [kind |-> "poll", data |-> data,
                                           cancelled |-> p.cancelled,
                                           fresh |-> IF p.cancelled THEN 0
                                                     ELSE Len(Fresh(data, council.processedIds).fresh)]]
     IN  council' = IF p.cancelled THEN done ELSE processEvents(done, data)
  /\ UNCHANGED <<store, last, inflight, pageSprints, view, mock, labels>>

\* The fetch of a poll rejects, or its body is not JSON: catch { }.
PollFails(p) ==
  /\ p \in council.polls
  /\ council' = [council EXCEPT !.polls = @ \ {p}, !.step = [kind |-> "pollFails"]]
  /\ UNCHANGED <<store, last, inflight, pageSprints, view, mock, labels>>

\* The callback a speaking event passed to setTimeout runs.
TimerFires(t) ==
  /\ t \in council.timers
  /\ council' = [council EXCEPT
                   !.models[t.model].status = IF t.voted THEN "VOTED" ELSE "IDLE",
                   !.timers = @ \ {t},
                   !.step = [kind |-> "timer", timer |-> t]]
  /\ UNCHANGED <<store, last, inflight, pageSprints, view, mock, labels>>

\* handleToggle, and the polling effect that the new useMock re-runs: its
\* cleanup sets `cancelled` for the polls of the old effect and clears the
\* interval, the new effect polls at once.  No timer is cleared; `stale`
\* marks the timers that were pending at the toggle.
handleToggle ==
  /\ council.toggled < MaxToggles
  /\ council' = [council EXCEPT
                   !.useMock = ~@,
                   !.processedIds = {},
                   !.events = <<>>,
                   !.models = [m \in ModelIds |-> INITIAL_MODEL_STATE],
                   !.currentPhase = "none",
                   !.sessionStart = 0,
                   !.verdict = "none",
                   !.timers = {[t EXCEPT !.stale = TRUE] : t \in @},
                   !.polls = {[p EXCEPT !.cancelled = TRUE] : p \in @}
                               \cup {[n |-> council.polled + 1,
                                      useMock |-> ~council.useMock,
                                      cancelled |-> FALSE]},
                   !.polled = @ + 1,
                   !.toggled = @ + 1,
                   !.applied = <<>>,
                   !.step = [kind |-> "toggle"]]
  /\ UNCHANGED <<store, last, inflight, pageSprints, view, mock, labels>>

----------------------------------------------------------------------------
ColIds == 1..MaxColId
CardIds == 1..MaxCardId

\* The requests each step draws from.  A request that fails validation is
\* answered the same way whatever its other fields hold, so one request
\* stands for each way of failing.
CreateColumnStep == ColumnsPOST(TRUE)
CreateColumnRejectedStep == ColumnsPOST(FALSE)
UpdateColumnStep == \E id \in ColIds, t \in BOOLEAN : ColumnsIdPUT(id, t)
DeleteColumnStep == \E id \in ColIds : ColumnsIdDELETE(id)
CreateCardStep == \E col \in ColIds : CardsPOST(col, TRUE)
CreateCardRejectedStep == CardsPOST(0, TRUE) \/ CardsPOST(1, FALSE)
\* The sprint page's drag: a body that carries column_id and nothing else.
UpdateCardStep == \E id \in CardIds, col \in ColIds : CardsIdPUT(id, FALSE, TRUE, col)
UpdateCardFieldsStep == \E id \in CardIds : CardsIdPUT(id, TRUE, FALSE, 0)
DeleteCardStep == \E id \in CardIds : CardsIdDELETE(id)
\* A move to a numeric index from 0 on,
MoveCardStep ==
  \E id \in CardIds, col \in ColIds, i \in 0..(MaxCardId - 1) :
    CardsMovePOST(id, TRUE, col, NumPos(i))
\* a move whose position is negative or not a number,
MoveCardOddStep ==
  \E id \in CardIds, col \in ColIds, p \in {NumPos(-1), NoPos} :
    CardsMovePOST(id, TRUE, col, p)
\* and a move without card_id or without column_id.
MoveCardRejectedStep == CardsMovePOST(0, TRUE, 1, NoPos) \/ CardsMovePOST(1, FALSE, 0, NoPos)
AddDependencyStep == \E seg \in SegInputs, v \in DepValInputs : DependenciesPOST(seg, v)
RemoveDependencyStep == \E seg \in SegInputs, v \in DepValInputs : DependenciesDELETE(seg, v)

\* Every request of the column/card REST layer, one at a time, from an empty
\* store.
Next ==
  \/ CreateColumnStep
  \/ CreateColumnRejectedStep
  \/ UpdateColumnStep
  \/ DeleteColumnStep
  \/ CreateCardStep
  \/ CreateCardRejectedStep
  \/ UpdateCardStep
  \/ UpdateCardFieldsStep
  \/ DeleteCardStep
  \/ MoveCardStep
  \/ MoveCardOddStep
  \/ MoveCardRejectedStep

Spec == Init /\ [][Next]_vars

\* A board whose columns have been created (MaxColId accepted POST
\* /api/columns requests after Init) and that holds no card yet.
InitBoard ==
  /\ columns = [c \in ColIds |-> [position |-> c - 1]]
  /\ cards = <<>>
  /\ deps = [row \in DepRows |-> 0]
  /\ nextColId = MaxColId + 1
  /\ nextCardId = 1
  /\ last = Request("createColumn", 201, MaxColId, 0, NoPos, NoVal, 0)
  /\ sprints = <<>>
  /\ nextSprintId = 1
  /\ epics = 0
  /\ comments = <<>>
  /\ inflight = [cl \in Clients |-> Idle]
  /\ pageSprints = <<>>
  /\ view = <<>>
  /\ mock = MockStart
  /\ labels = <<>>
  /\ council = CouncilStart

\* Accepted card creates, moves and deletes on that board.
NextCards ==
  \/ CreateCardStep
  \/ MoveCardStep
  \/ MoveCardOddStep
  \/ DeleteCardStep

SpecCards == InitBoard /\ [][NextCards]_vars

\* Card creates, PUT /api/cards/{id} carrying a column_id, moves to a numeric
\* index and deletes, each naming a card that exists.
NextCardsAll ==
  \/ CreateCardStep
  \/ \E id \in DOMAIN cards, col \in ColIds : CardsIdPUT(id, FALSE, TRUE, col)
  \/ \E id \in DOMAIN cards, col \in ColIds, i \in 0..(MaxCardId - 1) :
       CardsMovePOST(id, TRUE, col, NumPos(i))
  \/ \E id \in DOMAIN cards : CardsIdDELETE(id)

SpecCardsAll == InitBoard /\ [][NextCardsAll]_vars

\* The sprint page: cards are created and dragged between columns with PUT.
NextSprintPage ==
  \/ CreateCardStep
  \/ UpdateCardStep

SpecSprintPage == InitBoard /\ [][NextSprintPage]_vars

\* The column requests, on columns that are filled by card creates and PUT.
NextColumns ==
  \/ CreateColumnStep
  \/ UpdateColumnStep
  \/ DeleteColumnStep
  \/ CreateCardStep
  \/ UpdateCardStep

SpecColumns == Init /\ [][NextColumns]_vars

\* The dependency endpoints.
NextDeps ==
  \/ AddDependencyStep
  \/ RemoveDependencyStep

SpecDeps == Init /\ [][NextDeps]_vars

\* Requests to the sprint, epic and comment endpoints.
SprintIds == 1..MaxSprintId
CreateSprintStep == \E st \in StatusInputs : SprintsPOST(TRUE, st)
CreateSprintRejectedStep == SprintsPOST(FALSE, "absent")
UpdateSprintStep == \E id \in SprintIds, st \in StatusInputs : SprintsIdPUT(id, TRUE, st)
\* The body { status: 'active' }, which has no name.
UpdateSprintRejectedStep == \E id \in SprintIds : SprintsIdPUT(id, FALSE, "active")
CreateEpicStep == \E t \in BOOLEAN : EpicsPOST(t)
CreateCommentStep ==
  \E body \in BodyInputs :
    /\ BlankBody(body) \/ Len(comments) < MaxRows
    /\ CommentsPOST(Segment(1, FALSE), body, Len(comments) + 1)
UpdateCardFullStep == \E id \in CardIds, t \in BOOLEAN : CardsIdPUTFull(id, t)

\* The sprint page's drag of the first card into a column.
UpdateCardFirstStep == \E col \in ColIds : CardsIdPUT(1, FALSE, TRUE, col)
\* The pages' sprint form: a name and no status, on a sprints table of fewer
\* than MaxRows rows.
CreateSprintFormStep == nextSprintId <= MaxRows /\ SprintsPOST(TRUE, "absent")

\* The requests that create and update rows, with and without the fields
\* their handlers ask for, on a board whose columns exist.
NextValidation ==
  \/ CreateColumnRejectedStep
  \/ UpdateColumnStep
  \/ CreateCardStep
  \/ CreateCardRejectedStep
  \/ UpdateCardFirstStep
  \/ UpdateCardFieldsStep
  \/ UpdateCardFullStep
  \/ MoveCardRejectedStep
  \/ CreateSprintFormStep
  \/ CreateSprintRejectedStep
  \/ UpdateSprintRejectedStep
  \/ CreateEpicStep
  \/ CreateCommentStep

SpecValidation == InitBoard /\ [][NextValidation]_vars

\* Requests that fail inside their handler.
MalformedBodyStep == \E op \in JsonHandlers : ReqJsonThrows(op)
StoreThrowsStep == \E op \in DbHandlers : DbExecuteThrows(op)
DeleteColumnStoppedStep == \E id \in ColIds, crash \in BOOLEAN : ColumnsIdDELETEStopped(id, crash)
MoveCardThrowsStep ==
  \E id \in DOMAIN cards, col \in ColIds, k \in 0..(MaxCardId - 1) :
    CardsMovePOSTThrows(id, col, NumPos(0), k)
CouncilEventsStep == \E readable \in BOOLEAN : CouncilEventsGET(readable)
CouncilStatsStep == \E readable \in BOOLEAN : CouncilStatsGET(readable)
ProbeStep == \E storeUp \in BOOLEAN : ProbeGET(storeUp)

\* Card creates and column deletes on a board whose columns exist, with
\* requests whose body is not JSON and handlers whose store or filesystem
\* calls throw.
NextFailures ==
  \/ CreateCardStep
  \/ DeleteColumnStep
  \/ DeleteColumnStoppedStep
  \/ MoveCardThrowsStep
  \/ MalformedBodyStep
  \/ StoreThrowsStep
  \/ CouncilEventsStep
  \/ CouncilStatsStep
  \/ ProbeStep

SpecFailures == InitBoard /\ [][NextFailures]_vars

\* Card creates and column deletes, complete and stopped half way, on a
\* board whose columns exist.
NextColumnDelete ==
  \/ CreateCardStep
  \/ DeleteColumnStep
  \/ DeleteColumnStoppedStep

SpecColumnDelete == InitBoard /\ [][NextColumnDelete]_vars

\* Moves of existing cards to the top or the bottom of a column, stopped by
\* a store failure in any of their UPDATE statements.
MoveCardThrowsAnywhereStep ==
  \E id \in DOMAIN cards, col \in ColIds, i \in {0, MaxCardId - 1}, k \in 0..(MaxCardId - 1) :
    CardsMovePOSTThrows(id, col, NumPos(i), k)

NextMoveFails ==
  \/ CreateCardStep
  \/ MoveCardThrowsAnywhereStep

SpecMoveFails == InitBoard /\ [][NextMoveFails]_vars

\* Comments posted to the cards 1..MaxDepId, with every body and every path
\* segment, at the time of the latest comment or a second later.
PostCommentStep ==
  \E seg \in SegInputs, body \in BodyInputs, dt \in 0..1 :
    CommentsPOST(seg, body, LatestCreatedAt(comments) + dt)

NextComments ==
  \/ PostCommentStep

SpecComments == Init /\ [][NextComments]_vars

\* Two clients that each send one move request into the same column, to its
\* top or to its bottom; the cards are created before the first request.
RaceCreateCardStep == (\A cl \in Clients : inflight[cl].pc = "idle") /\ CreateCardStep
RaceSelectStep ==
  \E cl \in Clients, id \in DOMAIN cards, col \in ColIds,
     p \in {NumPos(0), NumPos(MaxCardId - 1)} :
    /\ \A o \in Clients : inflight[o].pc # "idle" => inflight[o].column_id = col
    /\ MoveSelect(cl, id, col, p)
RaceUpdateStep == \E cl \in Clients : MoveUpdate(cl)

NextRace ==
  \/ RaceCreateCardStep
  \/ RaceSelectStep
  \/ RaceUpdateStep

SpecRace == InitBoard /\ [][NextRace]_vars

\* One client of the sprint page: it creates sprints and clicks "set active"
\* on a sprint of its list, in any of the three versions of the page.
CreateSprintPageStep == \E name \in {<<>>, <<" ">>, <<"a">>} : createSprint(name)
PageSprintRows == {pageSprints[i] : i \in DOMAIN pageSprints}
SetActiveStatusOnlyStep == \E sprint \in PageSprintRows : setSprintActiveStatusOnly(sprint)
SetActiveCloseFirstStep == \E sprint \in PageSprintRows : setSprintActiveCloseFirst(sprint)
SetActiveCloseAfterStep == \E sprint \in PageSprintRows : setSprintActiveCloseAfter(sprint)

NextSprints ==
  \/ CreateSprintPageStep
  \/ SetActiveStatusOnlyStep
  \/ SetActiveCloseFirstStep
  \/ SetActiveCloseAfterStep

SpecSprints == Init /\ [][NextSprints]_vars

\* One client of the board page: it adds cards and drags them.
OverInputs == {OverCard(c) : c \in CardIds} \cup {OverColumn(x) : x \in ColIds}
SaveCardStep == \E col \in ColIds : saveCard(col)
DragOverStep == \E c \in CardIds, over \in OverInputs : onDragOver(c, over)
DragEndStep == \E c \in CardIds, over \in OverInputs : onDragEnd(c, over, "ok", Cardinality(CardsIn(cards, TargetColId(view, c, over)) \cup {c}))
DragEndRejectedStep == \E c \in CardIds, over \in OverInputs : onDragEnd(c, over, "rejected", 0)
\* The handler throws in its SELECT or in its second UPDATE.
DragEndErrorStep ==
  \E c \in CardIds, over \in OverInputs, k \in 0..1 : onDragEnd(c, over, "error", k)

NextBoardPage ==
  \/ SaveCardStep
  \/ DragOverStep
  \/ DragEndStep
  \/ DragEndRejectedStep
  \/ DragEndErrorStep

\* The page has loaded the board, which has its columns and no card.
InitBoardPage ==
  /\ columns = [c \in ColIds |-> [position |-> c - 1]]
  /\ cards = <<>>
  /\ deps = [row \in DepRows |-> 0]
  /\ nextColId = MaxColId + 1
  /\ nextCardId = 1
  /\ last = Request("board", 200, 0, 0, NoPos, NoVal, 0)
  /\ sprints = <<>>
  /\ nextSprintId = 1
  /\ epics = 0
  /\ comments = <<>>
  /\ inflight = [cl \in Clients |-> Idle]
  /\ pageSprints = <<>>
  /\ view = [c \in ColIds |-> <<>>]
  /\ mock = MockStart
  /\ labels = <<>>
  /\ council = CouncilStart

SpecBoardPage == InitBoardPage /\ [][NextBoardPage]_vars

\* One client of the board page whose requests all succeed.  A drag is a run
\* of onDragOver events for one card, fired whenever the column under the
\* pointer changes, closed by one onDragEnd over a target in the column that
\* then shows the card; cards are added between drags.
Dragging == last.op = "onDragOver"
DragSaveCardStep == ~Dragging /\ SaveCardStep
DragOverOneCardStep ==
  \E c \in CardIds, over \in OverInputs :
    /\ Dragging => c = last.id
    /\ onDragOver(c, over)
DropStep ==
  \E c \in CardIds, over \in OverInputs :
    /\ Dragging => c = last.id
    /\ TargetColId(view, c, over) = FindColumnByCardId(view, c)
    /\ onDragEnd(c, over, "ok", Cardinality(CardsIn(cards, TargetColId(view, c, over)) \cup {c}))

NextDrag ==
  \/ DragSaveCardStep
  \/ DragOverOneCardStep
  \/ DropStep

SpecDrag == InitBoardPage /\ [][NextDrag]_vars

\* Two clients that create columns and cards at the same time.
CreateCardSelectStep == \E cl \in Clients, col \in ColIds : CardsPOSTSelect(cl, col)
CreateCardInsertStep == \E cl \in Clients : CardsPOSTInsert(cl)
CreateColumnSelectStep == \E cl \in Clients : ColumnsPOSTSelect(cl)
CreateColumnInsertStep == \E cl \in Clients : ColumnsPOSTInsert(cl)

NextCreateRace ==
  \/ CreateCardSelectStep
  \/ CreateCardInsertStep
  \/ CreateColumnSelectStep
  \/ CreateColumnInsertStep

SpecCreateRace == Init /\ [][NextCreateRace]_vars

\* The board's cards written with labels.  The table starts with one card
\* whose labels column holds a list, nothing, or a text that is not JSON.
StoredTexts ==
  {<<>>, <<Sym("abc")>>, <<Sym("["), Literal("a")>>,
   JsonStringify(JsonArray(<<>>)), JsonStringify(JsonArray(<<"a">>))}

InitLabels ==
  /\ columns = [c \in ColIds |-> [position |-> c - 1]]
  /\ cards = <<[column_id |-> 1, position |-> 0]>>
  /\ deps = [row \in DepRows |-> 0]
  /\ nextColId = MaxColId + 1
  /\ nextCardId = 2
  /\ last = Request("board", 200, 0, 0, NoPos, NoVal, 0)
  /\ sprints = <<>>
  /\ nextSprintId = 1
  /\ epics = 0
  /\ comments = <<>>
  /\ inflight = [cl \in Clients |-> Idle]
  /\ pageSprints = <<>>
  /\ view = <<>>
  /\ mock = MockStart
  /\ labels \in {(1 :> text) : text \in StoredTexts}
  /\ council = CouncilStart

CreateCardLabelsStep == \E col \in ColIds, value \in LabelValues : CardsPOSTLabels(col, value)
UpdateCardLabelsStep == \E id \in CardIds, value \in LabelValues : CardsIdPUTLabels(id, value)
MoveCardTopStep == \E id \in DOMAIN cards, col \in ColIds : CardsMovePOST(id, TRUE, col, NumPos(0))

NextLabels ==
  \/ CreateCardLabelsStep
  \/ UpdateCardLabelsStep
  \/ MoveCardTopStep

SpecLabels == InitLabels /\ [][NextLabels]_vars

\* The mock council route, polled over time and across loads of its module.
PollMockStep == \E loadedAt \in 0..MaxClock : PollMock(loadedAt)

NextMock ==
  \/ Tick
  \/ LoadModule
  \/ PollMockStep

SpecMock == Init /\ [][NextMock]_vars

\* The council page: polls start, resolve in any order with any window of the
\* feed or fail, timers run in any order, and the mode is toggled.
PollResponseStep == \E p \in council.polls, data \in Responses : PollResponse(p, data)
PollFailsStep == \E p \in council.polls : PollFails(p)
TimerFiresStep == \E t \in council.timers : TimerFires(t)

NextCouncil ==
  \/ PollStart
  \/ PollResponseStep
  \/ PollFailsStep
  \/ TimerFiresStep
  \/ handleToggle

SpecCouncil == Init /\ [][NextCouncil]_vars

----------------------------------------------------------------------------
\* Properties of the card positions.

C2_MovePlacesAtIndex ==
  [][(/\ last'.op = "move"
      /\ last'.status = 200
      /\ last'.id \in DOMAIN cards
      /\ last'.pos.isNumber
      /\ last'.pos.value >= 0) =>
         LET c == last'.id
             x == last'.col
             i == last'.pos.value
             others == {d \in DOMAIN cards : d # c /\ cards[d].column_id = x}
             count == Cardinality(others)
             inX == {d \in DOMAIN cards' : cards'[d].column_id = x}
         IN  /\ inX = others \cup {c}
             /\ cards'[c].position = (IF i < count THEN i ELSE count)
             /\ {cards'[d].position : d \in inX} = 0..count
             /\ \A a, b \in others :
                  cards[a].position < cards[b].position
                    => cards'[a].position < cards'[b].position
             /\ (i = 0 /\ cards[c].column_id # x
                   /\ {cards[d].position : d \in others} = 0..(count - 1))
                  => \A a \in others : cards'[a].position = cards[a].position + 1]_vars

\* A move put its card between two other cards of the target column.
C2_Witness ==
  /\ last.op = "move"
  /\ last.status = 200
  /\ last.pos = NumPos(1)
  /\ last.id \in DOMAIN cards
  /\ cards[last.id].column_id = last.col
  /\ cards[last.id].position = 1
  /\ \E a, b \in DOMAIN cards \ {last.id} :
       /\ cards[a].column_id = cards[last.id].column_id
       /\ cards[b].column_id = cards[last.id].column_id
       /\ cards[a].position = 0
       /\ cards[b].position = 2

C4_CreateAppends ==
  [][(last'.op = "createCard" /\ last'.status = 201) =>
         LET col == last'.col
             taken == {cards[c].position : c \in {d \in DOMAIN cards : cards[d].column_id = col}}
         IN  /\ last'.id \notin DOMAIN cards
             /\ DOMAIN cards' = DOMAIN cards \cup {last'.id}
             /\ cards'[last'.id].column_id = col
             /\ cards'[last'.id].position =
                  (IF taken = {} THEN 0
                   ELSE (CHOOSE m \in taken : \A q \in taken : q <= m) + 1)
             /\ \A c \in DOMAIN cards : cards'[c] = cards[c]]_vars

\* A card was created above a gap: its position is the largest of its column
\* plus one, not the number of cards of the column.
C4_Witness ==
  /\ last.op = "createCard"
  /\ last.status = 201
  /\ last.id \in DOMAIN cards
  /\ cards[last.id].position = 2
  /\ Cardinality({d \in DOMAIN cards : cards[d].column_id = cards[last.id].column_id}) = 2

\* C5: at rest, also after PUT /api/cards/{id} with a column_id, no two cards
\* of a column share a position and the positions of a column are contiguous.
C5_UniqueContiguousAtRest ==
  \A col \in ColIds :
    LET inCol == {d \in DOMAIN cards : cards[d].column_id = col}
    IN  /\ \A a, b \in inCol : a # b => cards[a].position # cards[b].position
        /\ \A a, b \in inCol : \A q \in cards[a].position..cards[b].position :
             \E d \in inCol : cards[d].position = q

\* C6: every card's column_id is the id of an existing column.
C6_ColumnIdReferencesColumn ==
  \A c \in DOMAIN cards : cards[c].column_id \in DOMAIN columns

\* C7: a column delete removes the column row and every card of that column,
\* and leaves the other columns and the cards of the other columns as they
\* were.
C7_ColumnDeleteCascades ==
  [][(last'.op = "deleteColumn" /\ last'.status = 200) =>
       LET id == last'.id
       IN
         /\ id \notin DOMAIN columns'
         /\ \A c \in DOMAIN cards' : cards'[c].column_id # id
         /\ DOMAIN columns' = DOMAIN columns \ {id}
         /\ \A k \in DOMAIN columns' : columns'[k] = columns[k]
         /\ DOMAIN cards' = {c \in DOMAIN cards : cards[c].column_id # id}
         /\ \A c \in DOMAIN cards' : cards'[c] = cards[c]]_vars

\* A column was deleted together with a card, and a card of another column
\* is still there.
C7_Witness ==
  /\ last.op = "deleteColumn"
  /\ last.id \notin DOMAIN columns
  /\ last.id < nextColId
  /\ \E c \in DOMAIN cards : cards[c].column_id \in DOMAIN columns
  /\ \E c \in CardIds : c < nextCardId /\ c \notin DOMAIN cards

----------------------------------------------------------------------------
\* Properties of the dependency edges.

\* C9: a dependency POST that is accepted leaves exactly one row for its pair,
\* whether or not the pair was there before, and leaves every other pair's
\* rows as they were.
C9_DependencyPostIdempotent ==
  [][(last'.op = "addDependency" /\ last'.status = 200) =>
         /\ deps'[<<last'.id, last'.val.v>>] = 1
         /\ \A r \in DepRows : r # <<last'.id, last'.val.v>> => deps'[r] = deps[r]]_vars

\* A pair that was already in the table was posted again.
C9_Witness ==
  /\ last.op = "addDependency"
  /\ last.status = 200
  /\ last.rows = 0
  /\ deps[<<last.id, last.val.v>>] = 1
  /\ \E r \in DepRows : r # <<last.id, last.val.v>> /\ deps[r] = 1

\* C10: no dependency row has card_id and depends_on_id naming the same card.
C10_NoSelfDependency == \A n \in 1..MaxDepId : deps[<<n, n>>] = 0

----------------------------------------------------------------------------
\* Properties of the error responses.

\* C11 (as stated): a create, update or move request that leaves out title
\* (columns, cards, epics), column_id (card create), name (sprints), card_id
\* or column_id (move) or a non-blank body (comments) is answered 400 with an
\* error body and changes nothing.
C11_MissingFieldRejected ==
  [][last'.omitted # {} =>
       /\ last'.status = 400
       /\ last'.body = "error"
       /\ store' = store]_vars

\* C11 (amended): the same for every such request but the merging
\* PUT /api/cards/{id}, which asks for no field: without a title it is
\* answered 404 when the card does not exist and 200 otherwise, and it writes
\* the column_id it carries.
C11_MissingFieldRejectedButMerge ==
  [][/\ (last'.omitted # {} /\ last'.op # "updateCard") =>
          /\ last'.status = 400
          /\ last'.body = "error"
          /\ store' = store
     /\ (last'.omitted # {} /\ last'.op = "updateCard") =>
          /\ last'.status = (IF last'.id \in DOMAIN cards THEN 200 ELSE 404)
          /\ last'.id \in DOMAIN cards /\ last'.col # 0
               => cards'[last'.id].column_id = last'.col]_vars

\* A comment whose body is white space only was answered 400 while a sprint,
\* a card and a column exist.
C11_Witness ==
  /\ last.op = "createComment"
  /\ last.omitted = {"body"}
  /\ last.status = 400
  /\ comments = <<>>
  /\ sprints # <<>>
  /\ cards # <<>>
  /\ columns # <<>>

\* C12: a POST or PUT of the column/card REST layer whose body is not JSON is
\* answered 400 with an error body, and the store is unchanged.
C12_MalformedJsonIs400 ==
  [][last'.malformed =>
       /\ last'.status = 400
       /\ last'.body = "error"
       /\ store' = store]_vars

\* C13: a PUT, DELETE or move that names a card, column or sprint id that
\* does not exist is answered 404 and changes no row.
C13_StaleIdIs404 ==
  [][(/\ last'.omitted = {}
      /\ ~last'.malformed
      /\ ~last'.threw
      /\ \/ last'.op \in {"updateColumn", "deleteColumn"} /\ last'.id \notin DOMAIN columns
         \/ last'.op \in {"updateCard", "updateCardFull", "deleteCard", "move"}
              /\ last'.status # 400 /\ last'.id \notin DOMAIN cards
         \/ last'.op = "updateSprint" /\ last'.id \notin DOMAIN sprints) =>
       /\ last'.status = 404
       /\ store' = store]_vars

\* C14: when a store or filesystem call throws inside a handler, the response
\* has status 500 and the fixed error body, not the exception's text.
C14_ThrowIs500Generic ==
  last.threw => (last.status = 500 /\ last.body = "error")

\* C15 (as stated): a column delete that stops between its two statements
\* leaves a card whose column_id names a column that no longer exists.
C15_StoppedDeleteLeavesOrphans ==
  [][(/\ last'.op = "deleteColumn"
      /\ last'.status # 200
      /\ last'.id \in DOMAIN columns
      /\ \E c \in DOMAIN cards : cards[c].column_id = last'.id) =>
       \E c \in DOMAIN cards' : cards'[c].column_id \notin DOMAIN columns']_vars

\* C15 (amended): a column delete that stops between its two statements has
\* deleted the cards of the column and not the column row: the columns table
\* is as it was, the cards left are the cards of the other columns, unchanged,
\* and no card that named an existing column names a missing one afterwards.
C15_StoppedDeleteLeavesEmptyColumn ==
  [][(last'.op = "deleteColumn" /\ last'.status # 200) =>
       /\ columns' = columns
       /\ DOMAIN cards' = {c \in DOMAIN cards : cards[c].column_id # last'.id}
       /\ \A c \in DOMAIN cards' : cards'[c] = cards[c]
       /\ \A c \in DOMAIN cards' :
            cards[c].column_id \in DOMAIN columns => cards'[c].column_id \in DOMAIN columns']_vars

\* A column delete stopped after it had deleted a card: the column row is
\* still there, without cards, and a card of another column is left.
C15_Witness ==
  /\ last.op = "deleteColumn"
  /\ last.status # 200
  /\ last.id \in DOMAIN columns
  /\ \A c \in DOMAIN cards : cards[c].column_id # last.id
  /\ cards # <<>>
  /\ Cardinality(DOMAIN cards) < nextCardId - 1

----------------------------------------------------------------------------
\* Properties of concurrent requests.

\* C16: two move requests into the same column race only when they
\* interleave.  Before the first request every column has the positions
\* 0..n-1, each once; when no request began while the other was between its
\* SELECT and its last UPDATE, the target column has the positions 0..n-1,
\* each once, after either request has ended.  (The interleaving that breaks
\* this is C16_Witness.)
C16_SerialMovesKeepRanks ==
  /\ (\A cl \in Clients : inflight[cl].pc = "idle") =>
       \A col \in ColIds :
         /\ {cards[c].position : c \in {d \in DOMAIN cards : cards[d].column_id = col}}
              = 0..(Cardinality({d \in DOMAIN cards : cards[d].column_id = col}) - 1)
         /\ \A a, b \in DOMAIN cards :
              (a # b /\ cards[a].column_id = col /\ cards[b].column_id = col)
                => cards[a].position # cards[b].position
  /\ ((\A cl \in Clients : inflight[cl].pc \in {"idle", "done"} /\ ~inflight[cl].raced)
       => \A cl \in Clients : inflight[cl].pc = "done" =>
            LET inX == {d \in DOMAIN cards : cards[d].column_id = inflight[cl].column_id}
            IN  /\ {cards[c].position : c \in inX} = 0..(Cardinality(inX) - 1)
                /\ \A a, b \in inX : a # b => cards[a].position # cards[b].position)

\* Both requests have ended, the second began before the first had ended,
\* and two cards of the target column share a position.
C16_Witness ==
  /\ \A cl \in Clients : inflight[cl].pc = "done"
  /\ \E cl \in Clients : inflight[cl].raced
  /\ inflight[1].column_id = inflight[2].column_id
  /\ inflight[1].card_id # inflight[2].card_id
  /\ \E a, b \in DOMAIN cards :
       /\ a # b
       /\ cards[a].column_id = inflight[1].column_id
       /\ cards[b].column_id = inflight[1].column_id
       /\ cards[a].position = cards[b].position

----------------------------------------------------------------------------
\* Properties of the sprints.

\* C17: when setSprintActive(S) has finished, on a page whose sprint list
\* matched the server, S has status 'active' and no other sprint has.
C17_SetActiveMakesOnlyActive ==
  [][(/\ last'.op = "setSprintActive"
      /\ pageSprints = SprintsGET(sprints)
      /\ last'.id \in DOMAIN sprints) =>
       /\ sprints'[last'.id].status = "active"
       /\ \A o \in DOMAIN sprints' \ {last'.id} : sprints'[o].status # "active"]_vars

\* C18: whatever one client does with createSprint and setSprintActive, at
\* most one sprint has status 'active'.
C18_AtMostOneActive ==
  Cardinality({k \in DOMAIN sprints : sprints[k].status = "active"}) <= 1

----------------------------------------------------------------------------
\* Properties of the board page.

\* C19: after a drag-end whose move request failed, because fetch rejected or
\* because the server answered an error status, the page shows what a
\* reload shows: the server's columns with the server's card order.
C19_FailedMoveReloads ==
  (last.op = "onDragEnd" /\ last.status # 200) => view \in BoardGET(columns, cards)

----------------------------------------------------------------------------
\* Properties of the mock council route.

\* C20 (as stated): any two polls, at any two times and served by any load of
\* the module, return the same array, timestamps included.
C20_PollsIdentical ==
  Len(mock.polls) = 2 => mock.polls[1].events = mock.polls[2].events

\* C20 (amended): two polls return the same events in the same order, and
\* the same timestamps too when the same load of the module served both,
\* whatever the times of the two polls.
C20_PollsIdenticalPerLoad ==
  Len(mock.polls) = 2 =>
    /\ DOMAIN mock.polls[1].events = DOMAIN mock.polls[2].events
    /\ \A n \in DOMAIN mock.polls[1].events :
         mock.polls[1].events[n].event = mock.polls[2].events[n].event
    /\ mock.polls[1].loadedAt = mock.polls[2].loadedAt
         => mock.polls[1].events = mock.polls[2].events

\* Two polls at different times were served by the same load of the module
\* while a later load exists.
C20_Witness ==
  /\ Len(mock.polls) = 2
  /\ mock.polls[1].at < mock.polls[2].at
  /\ mock.polls[1].loadedAt = mock.polls[2].loadedAt
  /\ mock.polls[1].events = mock.polls[2].events
  /\ \E t \in mock.loads : t > mock.polls[1].loadedAt

----------------------------------------------------------------------------
\* Properties of the move handler's insert index.

\* C24: after an accepted move the card sits at the submitted position
\* clamped into 0..count, count being the number of other cards of the
\* destination column, for negative positions and positions above count
\* too; a position that is not a number puts it at count.
C24_InsertIndexClamped ==
  (last.op = "move" /\ last.status = 200 /\ last.id \in DOMAIN cards) =>
    LET count == Cardinality(CardsIn(cards, last.col) \ {last.id})
    IN  cards[last.id].position =
          IF last.pos.isNumber THEN Max(0, Min(last.pos.value, count)) ELSE count

----------------------------------------------------------------------------
\* Properties of a move whose store call fails.

\* C30: a move in which the UPDATE number k + 1 throws is answered 500; the
\* first k cards of the rebuilt destination order have the destination's
\* column_id and their index as position, every other card is as it was
\* before the request, and no card is added or removed.
C30_FailedMoveKeepsFirstK ==
  [][(last'.op = "move" /\ last'.threw) =>
       /\ last'.status = 500
       /\ DOMAIN cards' = DOMAIN cards
       /\ \E rows \in OrderByPosition(cards, CardsIn(cards, last'.col) \ {last'.id}) :
            LET order == Splice(rows, InsertPos(last'.pos, Len(rows)), last'.id)
            IN  \A c \in DOMAIN cards :
                  IF \E i \in 1..last'.done : order[i] = c
                    THEN /\ cards'[c].column_id = last'.col
                         /\ order[cards'[c].position + 1] = c
                         /\ cards'[c].position < last'.done
                    ELSE cards'[c] = cards[c]]_vars

\* A move stopped after at least one UPDATE left two cards of the
\* destination column at the same position.
C30_Witness ==
  /\ last.op = "move" /\ last.threw /\ last.done >= 1
  /\ \E a, b \in DOMAIN cards :
       /\ a # b
       /\ cards[a].column_id = last.col /\ cards[b].column_id = last.col
       /\ cards[a].position = cards[b].position

----------------------------------------------------------------------------
\* Properties of the board page's drag and drop.

\* C26: after a drag-end whose move request succeeded, every column of the
\* page's board lists its cards in the order GET /api/board returns, whatever
\* the drop target was.
C26_DropMatchesServer ==
  (last.op = "onDragEnd" /\ last.status = 200) => view \in BoardGET(columns, cards)

----------------------------------------------------------------------------
\* Properties of creates that run at the same time.

\* C29: whatever the interleaving of the statements of POST /api/cards and
\* POST /api/columns requests, two cards of one column never have the same
\* position and two columns never have the same position.
C29_InterleavedCreatesDistinct ==
  /\ \A a, b \in DOMAIN cards :
       (a # b /\ cards[a].column_id = cards[b].column_id)
         => cards[a].position # cards[b].position
  /\ \A a, b \in DOMAIN columns :
       a # b => columns[a].position # columns[b].position

----------------------------------------------------------------------------
\* Properties of the council page.

\* C21: between two toggles no two events applied to the page have the same
\* (timestamp, model, type), and a poll whose events all have ids the page
\* has already seen leaves the record, the phase, the session start, the
\* verdict, the models and the pending timers as they were.
C21_EventAppliedOnce ==
  [][council'.step.kind = "poll" =>
       /\ \A i, j \in DOMAIN council'.applied :
            EventId(council'.applied[i]) = EventId(council'.applied[j]) => i = j
       /\ (\A i \in DOMAIN council'.step.data :
             EventId(council'.step.data[i]) \in council.processedIds)
            => /\ council'.events = council.events
               /\ council'.currentPhase = council.currentPhase
               /\ council'.sessionStart = council.sessionStart
               /\ council'.verdict = council.verdict
               /\ council'.models = council.models
               /\ council'.timers = council.timers
               /\ council'.applied = council.applied]_vars

\* A poll that was not cancelled delivered events, none of them new to the
\* page, after the page had applied events, among them only one of the two
\* events that share an id.
C21_Witness ==
  /\ council.step.kind = "poll"
  /\ ~council.step.cancelled
  /\ Len(council.step.data) >= 4
  /\ council.step.fresh = 0
  /\ Len(council.applied) = Len(council.step.data) - 1

\* C25: a model's status becomes VOTED only from SPEAKING and only when the
\* timer of the speaking event it is showing runs; a poll never changes the
\* status of "system", and a poll of system events changes no status.
C25_VotedOnlyFromSpeaking ==
  [][/\ \A m \in ModelIds :
          (council'.models[m].status = "VOTED" /\ council.models[m].status # "VOTED")
            => /\ council.models[m].status = "SPEAKING"
               /\ council'.step.kind = "timer"
               /\ council'.step.timer.event = council.models[m].speaking
     /\ council'.step.kind = "poll" =>
          /\ council'.models["system"].status = council.models["system"].status
          /\ (\A i \in DOMAIN council'.step.data : council'.step.data[i].model = "system")
               => \A m \in ModelIds : council'.models[m].status = council.models[m].status]_vars

\* C27: a model whose status is VOTED has a numeric confidence.
C27_VotedHasConfidence ==
  \A m \in ModelIds :
    council.models[m].status = "VOTED" => council.models[m].confidence = "number"

\* C28: after a toggle, until the page applies an event of a poll started
\* after it, every model is IDLE and the record is empty.
C28_ResetHoldsUntilNewEvent ==
  (council.toggled >= 1 /\ council.applied = <<>>) =>
    /\ \A m \in ModelIds : council.models[m].status = "IDLE"
    /\ council.events = <<>>

----------------------------------------------------------------------------
\* Properties of the comments.

\* C22: whatever order GET /api/cards/{id}/comments returns, it holds each
\* comment stored for the card once and no other, created_at never
\* decreasing along it; an accepted POST adds one row, of the card of its
\* path and with the trimmed body, and leaves every earlier row as it was; a
\* rejected POST leaves the table as it was.
C22_CommentsAppendOnly ==
  [][last'.op = "createComment" =>
       /\ \A seg \in SegInputs : \A rows \in CommentsGET(comments', seg) :
            /\ {rows[k] : k \in DOMAIN rows} =
                 {i \in DOMAIN comments' : comments'[i].card_id = seg.digits}
            /\ \A k, l \in DOMAIN rows :
                 /\ k < l => comments'[rows[k]].created_at <= comments'[rows[l]].created_at
                 /\ rows[k] = rows[l] => k = l
       /\ last'.status = 201 =>
            /\ Len(comments') = Len(comments) + 1
            /\ \A i \in DOMAIN comments : comments'[i] = comments[i]
            /\ comments'[Len(comments')].card_id = last'.id
            /\ comments'[Len(comments')].body # <<>>
            /\ Head(comments'[Len(comments')].body) # " "
       /\ last'.status # 201 => comments' = comments]_vars

\* Card 1 has three comments, two of them of the same second, and the last
\* request posted the third one with a path segment that has characters after
\* the digits.
C22_Witness ==
  /\ last.op = "createComment" /\ last.status = 201 /\ last.id = 1
  /\ Len(comments) = 3
  /\ \A i \in DOMAIN comments : comments[i].card_id = 1
  /\ comments[1].created_at = comments[2].created_at
  /\ comments[2].created_at < comments[3].created_at
  /\ Cardinality(CommentsGET(comments, Segment(1, TRUE))) = 2

----------------------------------------------------------------------------
\* Properties of GET /api/board.

\* C23: in every response GET /api/board may give, the columns are all there
\* once, position never decreasing; each column carries the cards whose
\* column_id is its id, all of them once and no other, position never
\* decreasing; the labels of every card are a list, the empty list when the
\* stored text is not JSON; and no card is under two columns.
C23_BoardJoinsColumnsAndCards ==
  \A resp \in BoardResponse(columns, cards, labels) :
    /\ {resp[k].id : k \in DOMAIN resp} = DOMAIN columns
    /\ \A k, l \in DOMAIN resp :
         /\ k < l => columns[resp[k].id].position <= columns[resp[l].id].position
         /\ resp[k].id = resp[l].id => k = l
         /\ k # l => \A i \in DOMAIN resp[k].cards, j \in DOMAIN resp[l].cards :
                       resp[k].cards[i].id # resp[l].cards[j].id
    /\ \A k \in DOMAIN resp :
         /\ {resp[k].cards[i].id : i \in DOMAIN resp[k].cards} =
              {c \in DOMAIN cards : cards[c].column_id = resp[k].id}
         /\ \A i, j \in DOMAIN resp[k].cards :
              /\ i < j => resp[k].cards[i].position <= resp[k].cards[j].position
              /\ resp[k].cards[i].id = resp[k].cards[j].id => i = j
         /\ \A i \in DOMAIN resp[k].cards :
              /\ resp[k].cards[i].labels.kind = "array"
              /\ JsonParse(StoredLabels(labels, resp[k].cards[i].id)).kind = "throws"
                   => resp[k].cards[i].labels = JsonArray(<<>>)

====
